---- MODULE Spec2Model ----
(***************************************************************************)
(* Column-addition tutor (ColumnAddition.tsx) and its pizza reward game    *)
(* (PizzaGame.tsx).                                                        *)
(*                                                                         *)
(* JavaScript arrays and strings are modelled as sequences; the source's   *)
(* 0-based index i is position i+1 of the sequence (At, SetAt).  A string  *)
(* operand is the sequence of its characters, each a one-character string. *)
(***************************************************************************)
EXTENDS Integers, Sequences, FiniteSets, TLC

\* ------------------------------------------------------------------------
\* JavaScript primitives used by the source
\* ------------------------------------------------------------------------

\* the value of an out-of-range array read and of an absent optional field
Undefined == "undefined"

\* the result of parseInt on a string that does not start with a digit
NaN == -1

DigitChars == <<"0", "1", "2", "3", "4", "5", "6", "7", "8", "9">>

Max(a, b) == IF a >= b THEN a ELSE b

\* arr[i] of the source (0-based); undefined outside the array
At(arr, i) == IF i >= 0 /\ i < Len(arr) THEN arr[i + 1] ELSE Undefined

\* arr[i] = v of the source; writing past the end lengthens the array
SetAt(arr, i, v) ==
    [ k \in 1..Max(Len(arr), i + 1) |->
        IF k = i + 1 THEN v ELSE IF k <= Len(arr) THEN arr[k] ELSE Undefined ]

\* FillEmpty allocating one cell too few
FillEmpty_OneShort(n) == [k \in 1..(n - 1) |-> ""]

\* new Array(n).fill('')
FillEmpty(n) == [k \in 1..n |-> ""]

\* String.prototype.padStart(n, ' ') on a character sequence
PadStart(s, n) ==
    IF Len(s) >= n THEN s
    ELSE [k \in 1..n |-> IF k <= n - Len(s) THEN " " ELSE s[k - (n - Len(s))]]

\* parseInt of a one-character string
ParseInt(c) ==
    IF \E d \in 0..9 : DigitChars[d + 1] = c
    THEN CHOOSE d \in 0..9 : DigitChars[d + 1] = c
    ELSE NaN

\* the expression  x || 0  for a number x (NaN and 0 are falsy)
OrZero(x) == IF x = NaN \/ x = 0 THEN 0 ELSE x

\* the expression  s || '0'  for a string or undefined s
OrZeroChar(s) == IF s = Undefined \/ s = "" THEN "0" ELSE s

\* Number.prototype.toString() of a single-digit number, as one cell string
DigitToString(d) == DigitChars[d + 1]

\* ------------------------------------------------------------------------
\* solveQuestion (ColumnAddition.tsx)
\* ------------------------------------------------------------------------

\* StoreCarry writing the carry above the column that produced it
StoreCarry_SameColumn(carries, i, carry) ==
    IF carry > 0 /\ i > 0 THEN SetAt(carries, i, DigitToString(carry))
    ELSE carries

\* the carry written above the column to the left (lines 153-156)
StoreCarry(carries, i, carry) ==
    IF carry > 0 /\ i > 0 THEN SetAt(carries, i - 1, DigitToString(carry))
    ELSE carries

\* SolveColumn writing the result digit with index 0 at the units column
SolveColumn_UnitsFirst(paddedTop, paddedBottom, i, acc) ==
    LET topDigit    == OrZero(ParseInt(OrZeroChar(At(paddedTop, i))))
        bottomDigit == OrZero(ParseInt(OrZeroChar(At(paddedBottom, i))))
        sum         == topDigit + bottomDigit + acc.carry
        result      == DigitToString(sum % 10)
        newCarry    == sum \div 10
    IN  [ answer  |-> SetAt(acc.answer, Len(acc.answer) - 2 - i, result),
          carries |-> StoreCarry(acc.carries, i, newCarry),
          steps   |-> Append(acc.steps,
                        [ columnIndex |-> i,
                          result      |-> result,
                          carry       |-> IF newCarry > 0
                                          THEN DigitToString(newCarry)
                                          ELSE Undefined ]),
          carry   |-> newCarry ]

\* SolveColumn adding the new carry to the carry that came in
SolveColumn_CarryAdds(paddedTop, paddedBottom, i, acc) ==
    LET topDigit    == OrZero(ParseInt(OrZeroChar(At(paddedTop, i))))
        bottomDigit == OrZero(ParseInt(OrZeroChar(At(paddedBottom, i))))
        sum         == topDigit + bottomDigit + acc.carry
        result      == DigitToString(sum % 10)
        newCarry    == acc.carry + sum \div 10
    IN  [ answer  |-> SetAt(acc.answer, i, result),
          carries |-> StoreCarry(acc.carries, i, newCarry),
          steps   |-> Append(acc.steps,
                        [ columnIndex |-> i,
                          result      |-> result,
                          carry       |-> IF newCarry > 0
                                          THEN DigitToString(newCarry)
                                          ELSE Undefined ]),
          carry   |-> newCarry ]

\* one iteration of the for loop (lines 127-157); acc is the loop state
SolveColumn(paddedTop, paddedBottom, i, acc) ==
    LET topDigit    == OrZero(ParseInt(OrZeroChar(At(paddedTop, i))))
        bottomDigit == OrZero(ParseInt(OrZeroChar(At(paddedBottom, i))))
        sum         == topDigit + bottomDigit + acc.carry
        result      == DigitToString(sum % 10)
        newCarry    == sum \div 10
    IN  [ answer  |-> SetAt(acc.answer, i, result),
          carries |-> StoreCarry(acc.carries, i, newCarry),
          steps   |-> Append(acc.steps,
                        [ columnIndex |-> i,
                          result      |-> result,
                          carry       |-> IF newCarry > 0
                                          THEN DigitToString(newCarry)
                                          ELSE Undefined ]),
          carry   |-> newCarry ]

RECURSIVE SolveLoop(_, _, _, _)
\* the for loop, i from maxLength-1 down to 0
SolveLoop(paddedTop, paddedBottom, i, acc) ==
    IF i < 0 THEN acc
    ELSE SolveLoop(paddedTop, paddedBottom, i - 1,
                   SolveColumn(paddedTop, paddedBottom, i, acc))

\* FinalCarry dropping the carry out of the leftmost column
FinalCarry_Dropped(acc, maxLength) == acc

\* FinalCarry writing the carry cell without a step for it
FinalCarry_NoStep(acc, maxLength) ==
    IF acc.carry > 0
    THEN [ acc EXCEPT !.answer = SetAt(acc.answer, maxLength, DigitToString(acc.carry)) ]
    ELSE acc

\* the final carry (lines 159-168)
FinalCarry(acc, maxLength) ==
    IF acc.carry > 0
    THEN [ acc EXCEPT
             !.answer = SetAt(acc.answer, maxLength, DigitToString(acc.carry)),
             !.steps  = Append(acc.steps,
                          [ columnIndex |-> -1,
                            result      |-> DigitToString(acc.carry),
                            carry       |-> Undefined ]) ]
    ELSE acc

solveQuestion(q) ==
    LET maxLength    == Max(Len(q.topNumber), Len(q.bottomNumber))
        paddedTop    == PadStart(q.topNumber, maxLength)
        paddedBottom == PadStart(q.bottomNumber, maxLength)
        start == [ answer  |-> FillEmpty(maxLength + 1),
                   carries |-> FillEmpty(maxLength + 1),
                   steps   |-> << >>,
                   carry   |-> 0 ]
        done  == FinalCarry(SolveLoop(paddedTop, paddedBottom, maxLength - 1, start),
                            maxLength)
    IN  [ topNumber      |-> q.topNumber,
          bottomNumber   |-> q.bottomNumber,
          correctAnswer  |-> done.answer,
          correctCarries |-> done.carries,
          steps          |-> done.steps ]

\* Number.prototype.toString() of a non-negative integer, as a character sequence
RECURSIVE NumberToString(_)
NumberToString(n) ==
    IF n < 10 THEN << DigitToString(n) >>
    ELSE Append(NumberToString(n \div 10), DigitToString(n % 10))

\* ------------------------------------------------------------------------
\* State
\* ------------------------------------------------------------------------

VARIABLES
    \* solveQuestion applied to one question
    question, solved, solverDone,
    \* ColumnAddition component state (useState, lines 39-57)
    phase, exampleIndex, practiceIndex, currentStep, isAutoPlaying,
    examples, practiceQuestions, userInputs, isCorrect,
    correctAnswerCount, caDay1Earnings, caDay2Earnings, showEarningsCalculation,
    \* ColumnAddition timers: the auto-play setTimeout and the delayed callbacks
    autoPlayTimer, tutorTimeouts,
    \* PizzaGame component state (useState, lines 347-389), one record per mounted
    \* instance, and the number of instances mounted so far
    pg, orders, instance,
    \* PizzaGame timers: the setInterval of the timer effect, the pending setTimeouts
    timerInterval, gameTimeouts,
    \* the handler that produced the current state, and successful serves so far
    lastOp, servesMade

solverVars == << question, solved, solverDone >>
tutorVars  == << phase, exampleIndex, practiceIndex, currentStep, isAutoPlaying,
                 examples, practiceQuestions, userInputs, isCorrect,
                 correctAnswerCount, caDay1Earnings, caDay2Earnings,
                 showEarningsCalculation, autoPlayTimer, tutorTimeouts >>
gameVars   == << pg, orders, instance, timerInterval, gameTimeouts, servesMade >>
vars       == << solverVars, tutorVars, gameVars, lastOp >>

\* time is counted in units of 500 ms
ServeDelay     == 3
TimeoutDelay   == 4
IntervalPeriod == 2
AdvanceDelay   == 3
AutoPlayDelay  == 8

\* isCorrect: boolean | null
Null == "null"

\* lastOp names the handler that just ran when the handler left the component
\* state as it was, so that the call is a step of its own; otherwise it is NoOp
NoOp == "-"

\* ------------------------------------------------------------------------
\* PizzaGame (PizzaGame.tsx)
\* ------------------------------------------------------------------------

\* INGREDIENTS: id -> price (lines 22-31)
INGREDIENTS ==
    [ sauce |-> 1, cheese |-> 2, pepperoni |-> 3, mushroom |-> 2,
      pepper |-> 2, olive |-> 2, sausage |-> 3, onion |-> 1 ]

IngredientIds == DOMAIN INGREDIENTS

\* base pizza price (line 386)
BasePizzaPrice == 5

\* the countdown of one order, in seconds (lines 365, 440, 467)
OrderSeconds == 20

\* orders.length (line 378)
OrderCount == 10

\* the first order of day 2 (line 464)
Day2FirstOrder == 5

\* attempts that complete a day (line 460)
AttemptsPerDay == 5

\* multipliers (lines 448, 474, 488)
multipliers == << 1, 4, 8 >>

RECURSIVE SumPrices(_)
\* selectedIngredients.reduce((sum, ing) => sum + ing.price, 0)
SumPrices(S) ==
    IF S = {} THEN 0
    ELSE LET x == CHOOSE y \in S : TRUE
         IN  INGREDIENTS[x] + SumPrices(S \ {x})

\* one generated order (lines 383-387); an order's ingredient list has no
\* repetition and its sequence is never read, so it is kept as a set
MakeOrder(i, ings) ==
    [ id |-> i + 1, ingredients |-> ings, totalPrice |-> SumPrices(ings) + BasePizzaPrice ]

\* ingredient sets the random generator is taken to draw (2 to 5 of the 8)
OrderPool ==
    << {"sauce", "cheese"},
       {"sauce", "cheese", "olive"},
       {"pepperoni", "mushroom", "pepper", "olive", "sausage"} >>

\* where in OrderPool the order list starts
OrderRotations == {0}

\* the 10 orders of one instance (lines 377-389), index 0..9 at position 1..10
GenerateOrders(rotation) ==
    [ k \in 1..OrderCount |->
        MakeOrder(k - 1, OrderPool[((k - 1 + rotation) % Len(OrderPool)) + 1]) ]

\* the useState initial values of a freshly mounted PizzaGame (lines 347-374)
InitialGame ==
    [ gameStarted        |-> FALSE,
      currentDay         |-> 1,
      pizzasSoldDay1     |-> 0,
      pizzasSoldDay2     |-> 0,
      selectedIngredients |-> {},
      currentOrderIndex  |-> 0,
      day1Earnings       |-> 0,
      day2Earnings       |-> 0,
      day1Attempts       |-> 0,
      day2Attempts       |-> 0,
      timeLeft           |-> OrderSeconds,
      isTimerActive      |-> FALSE,
      sessionGameCount   |-> 0,
      priceMultiplier    |-> 1 ]


\* currentOrder = orders[currentOrderIndex] (line 391)
HasOrder(g) == g.currentOrderIndex >= 0 /\ g.currentOrderIndex < Len(orders)
currentOrder(g) == orders[g.currentOrderIndex + 1]

\* totalAttemptsToday (line 393)
totalAttemptsToday(g) == IF g.currentDay = 1 THEN g.day1Attempts ELSE g.day2Attempts

\* what a closure created during the render of state g reads later: the values
\* of that render, not the current ones
Snapshot(g) ==
    [ instance           |-> instance,
      currentDay         |-> g.currentDay,
      totalAttemptsToday |-> totalAttemptsToday(g),
      currentOrderIndex  |-> g.currentOrderIndex,
      sessionGameCount   |-> g.sessionGameCount,
      day1Earnings       |-> g.day1Earnings,
      day2Earnings       |-> g.day2Earnings ]

\* no interval is running
NoInterval ==
    [ armed |-> FALSE, due |-> 0,
      snap  |-> [ instance |-> 0, currentDay |-> 1, totalAttemptsToday |-> 0,
                  currentOrderIndex |-> 0, sessionGameCount |-> 0,
                  day1Earnings |-> 0, day2Earnings |-> 0 ] ]

\* dependency lists of the two effects (lines 433 and 454); orders, orders.length
\* and onComplete never change while the instance is mounted
TimerDepsChanged(o, n) ==
    o.isTimerActive # n.isTimerActive \/ o.currentDay # n.currentDay

OrderDepsChanged(o, n) ==
    \/ o.currentOrderIndex # n.currentOrderIndex
    \/ o.gameStarted # n.gameStarted
    \/ o.currentDay # n.currentDay
    \/ o.day1Earnings # n.day1Earnings
    \/ o.day2Earnings # n.day2Earnings

\* timer effect (lines 396-433) after the render of n that followed the render
\* of o: the previous interval is cleared and a new one is started
TimerEffect(o, n, iv) ==
    IF TimerDepsChanged(o, n)
    THEN IF n.isTimerActive /\ n.timeLeft > 0
         THEN [ armed |-> TRUE, due |-> IntervalPeriod, snap |-> Snapshot(n) ]
         ELSE NoInterval
    ELSE iv

\* order change effect (lines 436-454); its fallback branch needs an order index
\* outside orders, which nextOrder never sets
OrderChangeEffect(o, n) ==
    IF OrderDepsChanged(o, n) /\ HasOrder(n) /\ n.gameStarted
    THEN [ n EXCEPT !.timeLeft = OrderSeconds, !.isTimerActive = TRUE ]
    ELSE n

\* a batch of state updates n applied to the committed state o: render, run the
\* effects, render the updates the effects made, run the effects again
Commit(o, n, iv) ==
    LET n2  == OrderChangeEffect(o, n)
        iv1 == TimerEffect(o, n, iv)
        iv2 == TimerEffect(n, n2, iv1)
    IN  [ state |-> n2, interval |-> iv2 ]

\* bound on the successful serves of one run
MaxServes == 2

\* bound on the game instances mounted in one run
MaxSessions == 2

\* the ingredients the learner toggles by hand
ToggleChoices == {"olive"}

\* the seconds left at which the learner presses SERVE
ServeTimes == {20, 19, 1}

\* orderMatches accepting every selection that contains the order
orderMatches_Superset(order, selected) ==
    \A ing \in order.ingredients : ing \in selected

\* orderMatches (lines 571-572)
orderMatches(order, selected) ==
    /\ \A ing \in order.ingredients : ing \in selected
    /\ \A ing \in selected : ing \in order.ingredients

\* totalEarnings with a bonus of one unit per second left
totalEarnings_NoHalving(order, timeLeft, priceMultiplier) ==
    order.totalPrice * priceMultiplier + timeLeft * priceMultiplier

\* totalEarnings of a successful serve (lines 578-580)
totalEarnings(order, timeLeft, priceMultiplier) ==
    LET timeBonus == (timeLeft \div 2) * priceMultiplier
        basePrice == order.totalPrice * priceMultiplier
    IN  basePrice + timeBonus

\* the state updates of a successful serve (lines 575-590)
ServeUpdates(g) ==
    LET earned == totalEarnings(currentOrder(g), g.timeLeft, g.priceMultiplier)
    IN  IF g.currentDay = 1
        THEN [ g EXCEPT !.isTimerActive  = FALSE,
                        !.pizzasSoldDay1 = @ + 1,
                        !.day1Earnings   = @ + earned,
                        !.day1Attempts   = @ + 1 ]
        ELSE [ g EXCEPT !.isTimerActive  = FALSE,
                        !.pizzasSoldDay2 = @ + 1,
                        !.day2Earnings   = @ + earned,
                        !.day2Attempts   = @ + 1 ]

\* the failed-order bookkeeping of the timeout callback (lines 415-421); the
\* day is the one of the render that started the interval
FailedUpdates(g, snap) ==
    IF snap.currentDay = 1
    THEN [ g EXCEPT !.day1Attempts = @ + 1 ]
    ELSE [ g EXCEPT !.day2Attempts = @ + 1 ]

\* nextOrder (lines 456-500) as called from a closure holding snap: whether it
\* completes the game
NextOrderCompletes(snap) ==
    IF snap.totalAttemptsToday >= AttemptsPerDay
    THEN snap.currentDay # 1
    ELSE snap.currentOrderIndex + 1 >= OrderCount

\* the multiplier nextOrder sets when it completes the game (lines 473-476)
NextMultiplier(snap) == multipliers[((snap.sessionGameCount + 1) % 3) + 1]

\* nextOrder (lines 456-500): the state updates it makes on g
NextOrderUpdates(g, snap) ==
    IF NextOrderCompletes(snap)
    THEN [ g EXCEPT !.priceMultiplier  = NextMultiplier(snap),
                    !.sessionGameCount = snap.sessionGameCount + 1 ]
    ELSE IF snap.totalAttemptsToday >= AttemptsPerDay
    THEN [ g EXCEPT !.currentDay          = 2,
                    !.currentOrderIndex   = Day2FirstOrder,
                    !.selectedIngredients = {},
                    !.timeLeft            = OrderSeconds,
                    !.isTimerActive       = FALSE ]
    ELSE [ g EXCEPT !.currentOrderIndex   = snap.currentOrderIndex + 1,
                    !.selectedIngredients = {} ]

\* setTimeout callbacks wait in the order they were scheduled
Schedule(queue, kind, delay, snap) ==
    Append(queue, [ kind |-> kind, due |-> delay, snap |-> snap ])

RemoveAt(queue, k) ==
    [ j \in 1..(Len(queue) - 1) |-> IF j < k THEN queue[j] ELSE queue[j + 1] ]

\* handleEarningsCalculation (ColumnAddition.tsx lines 373-383)
EarningsInputs(day1, day2) ==
    LET maxLength == Max(Len(NumberToString(day1)), Len(NumberToString(day2)))
    IN  [ answer |-> FillEmpty(maxLength + 1), carries |-> FillEmpty(maxLength + 1) ]

\* handlePizzaGameComplete (ColumnAddition.tsx lines 404-409) followed by the
\* effect that initialises the earnings calculation (lines 412-416), which runs
\* when one of phase, showEarningsCalculation, day1Earnings, day2Earnings changed
handlePizzaGameComplete(day1, day2) ==
    /\ caDay1Earnings' = day1
    /\ caDay2Earnings' = day2
    /\ phase' = "earnings-calculation"
    /\ showEarningsCalculation' = TRUE
    /\ IF \/ phase # "earnings-calculation"
          \/ ~showEarningsCalculation
          \/ caDay1Earnings # day1
          \/ caDay2Earnings # day2
       THEN /\ userInputs' = EarningsInputs(day1, day2)
            /\ isCorrect' = Null
       ELSE UNCHANGED << userInputs, isCorrect >>
    /\ UNCHANGED << exampleIndex, practiceIndex, currentStep, isAutoPlaying,
                    examples, practiceQuestions, correctAnswerCount,
                    autoPlayTimer, tutorTimeouts >>

\* the PizzaGame instance is rendered (ColumnAddition.tsx lines 443-445)
Mounted == phase = "pizza-game"

\* a batch of updates of the mounted instance, committed
Update(n) ==
    LET c == Commit(pg, n, timerInterval)
    IN  /\ pg' = c.state
        /\ timerInterval' = c.interval

\* startGame (lines 610-612); the button is rendered while the game is not started
startGame ==
    /\ Mounted /\ ~pg.gameStarted
    /\ Update([ pg EXCEPT !.gameStarted = TRUE ])
    /\ lastOp' = NoOp
    /\ UNCHANGED << solverVars, tutorVars, orders, instance, gameTimeouts, servesMade >>

\* toggleIngredient (lines 559-565)
toggleIngredient(ingredientId) ==
    /\ Mounted /\ pg.gameStarted
    /\ Update([ pg EXCEPT !.selectedIngredients =
                  IF ingredientId \in @ THEN @ \ {ingredientId}
                  ELSE @ \cup {ingredientId} ])
    /\ lastOp' = NoOp
    /\ UNCHANGED << solverVars, tutorVars, orders, instance, gameTimeouts, servesMade >>

\* completePizza (lines 604-608)
completePizza ==
    /\ Mounted /\ pg.gameStarted
    /\ Update(IF HasOrder(pg)
              THEN [ pg EXCEPT !.selectedIngredients = currentOrder(pg).ingredients ]
              ELSE pg)
    /\ lastOp' = NoOp
    /\ UNCHANGED << solverVars, tutorVars, orders, instance, gameTimeouts, servesMade >>

\* resetPizza (lines 600-602)
resetPizza ==
    /\ Mounted /\ pg.gameStarted
    /\ Update([ pg EXCEPT !.selectedIngredients = {} ])
    /\ lastOp' = NoOp
    /\ UNCHANGED << solverVars, tutorVars, orders, instance, gameTimeouts, servesMade >>

\* servePizza counting a wrong serve as a failed attempt
servePizza_WrongCounts ==
    /\ Mounted /\ pg.gameStarted
    /\ pg.timeLeft \in ServeTimes \/ ~pg.isTimerActive
    /\ IF ~HasOrder(pg) \/ ~pg.isTimerActive
       THEN /\ lastOp' = "servePizza:ignored"
            /\ UNCHANGED << pg, timerInterval, gameTimeouts, servesMade >>
       ELSE IF orderMatches(currentOrder(pg), pg.selectedIngredients)
       THEN /\ servesMade < MaxServes
            /\ Update(ServeUpdates(pg))
            /\ gameTimeouts' = Schedule(gameTimeouts, "serve", ServeDelay, Snapshot(pg))
            /\ servesMade' = servesMade + 1
            /\ lastOp' = NoOp
       ELSE /\ Update([ FailedUpdates(pg, Snapshot(pg)) EXCEPT !.isTimerActive = FALSE ])
            /\ gameTimeouts' = Schedule(gameTimeouts, "serve", ServeDelay, Snapshot(pg))
            /\ lastOp' = "servePizza:wrong"
            /\ UNCHANGED servesMade
    /\ UNCHANGED << solverVars, tutorVars, orders, instance >>

\* servePizza without the test of isTimerActive
servePizza_NoTimerTest ==
    /\ Mounted /\ pg.gameStarted
    /\ pg.timeLeft \in ServeTimes \/ ~pg.isTimerActive
    /\ IF ~HasOrder(pg)
       THEN /\ lastOp' = "servePizza:ignored"
            /\ UNCHANGED << pg, timerInterval, gameTimeouts, servesMade >>
       ELSE IF orderMatches(currentOrder(pg), pg.selectedIngredients)
       THEN /\ servesMade < MaxServes
            /\ Update(ServeUpdates(pg))
            /\ gameTimeouts' = Schedule(gameTimeouts, "serve", ServeDelay, Snapshot(pg))
            /\ servesMade' = servesMade + 1
            /\ lastOp' = NoOp
       ELSE /\ lastOp' = "servePizza:wrong"
            /\ UNCHANGED << pg, timerInterval, gameTimeouts, servesMade >>
    /\ UNCHANGED << solverVars, tutorVars, orders, instance >>

\* servePizza (lines 567-598)
servePizza ==
    /\ Mounted /\ pg.gameStarted
    /\ pg.timeLeft \in ServeTimes \/ ~pg.isTimerActive
    /\ IF ~HasOrder(pg) \/ ~pg.isTimerActive
       THEN /\ lastOp' = "servePizza:ignored"
            /\ UNCHANGED << pg, timerInterval, gameTimeouts, servesMade >>
       ELSE IF orderMatches(currentOrder(pg), pg.selectedIngredients)
       THEN /\ servesMade < MaxServes
            /\ Update(ServeUpdates(pg))
            /\ gameTimeouts' = Schedule(gameTimeouts, "serve", ServeDelay, Snapshot(pg))
            /\ servesMade' = servesMade + 1
            /\ lastOp' = NoOp
       ELSE /\ lastOp' = "servePizza:wrong"
            /\ UNCHANGED << pg, timerInterval, gameTimeouts, servesMade >>
    /\ UNCHANGED << solverVars, tutorVars, orders, instance >>

\* one run of the setInterval callback of the timer effect (lines 399-429)
TimerTick ==
    /\ Mounted /\ timerInterval.armed /\ timerInterval.due = 0
    /\ LET newTime == pg.timeLeft - 1
           again   == [ timerInterval EXCEPT !.due = IntervalPeriod ]
       IN  IF newTime <= 0
           THEN /\ LET c == Commit(pg, [ pg EXCEPT !.isTimerActive = FALSE,
                                                   !.timeLeft = 0 ], again)
                   IN  pg' = c.state /\ timerInterval' = c.interval
                /\ gameTimeouts' = Schedule(gameTimeouts, "timeout", TimeoutDelay,
                                            timerInterval.snap)
                /\ lastOp' = NoOp
           ELSE /\ LET c == Commit(pg, [ pg EXCEPT !.timeLeft = newTime ], again)
                   IN  pg' = c.state /\ timerInterval' = c.interval
                /\ lastOp' = NoOp
                /\ UNCHANGED gameTimeouts
    /\ UNCHANGED << solverVars, tutorVars, orders, instance, servesMade >>

\* what a callback does before it calls nextOrder: the timeout callback counts
\* the failed order (lines 415-421), the serve callback nothing (line 594)
Bookkeeping(kind, g, snap) ==
    IF kind = "timeout" THEN FailedUpdates(g, snap) ELSE g

\* a due setTimeout callback of kind `kind` runs: its bookkeeping, then
\* nextOrder, both reading the snapshot of the render that scheduled it.  The
\* setters of an instance that is no longer mounted do nothing; onComplete is
\* the parent's handler and runs all the same.
GameCallback(kind) ==
    \E k \in 1..Len(gameTimeouts) :
        LET cb   == gameTimeouts[k]
            snap == cb.snap
            live == Mounted /\ snap.instance = instance
            n    == NextOrderUpdates(Bookkeeping(kind, pg, snap), snap)
        IN  /\ cb.kind = kind /\ cb.due = 0
            /\ gameTimeouts' = RemoveAt(gameTimeouts, k)
            /\ IF NextOrderCompletes(snap)
               THEN /\ pg' = IF live THEN n ELSE pg
                    /\ timerInterval' = NoInterval
                    /\ handlePizzaGameComplete(snap.day1Earnings, snap.day2Earnings)
                    /\ lastOp' = NoOp
               ELSE /\ IF live THEN Update(n) ELSE UNCHANGED << pg, timerInterval >>
                    /\ lastOp' = NoOp
                    /\ UNCHANGED tutorVars
            /\ UNCHANGED << solverVars, orders, instance, servesMade >>

\* the callback scheduled by a successful serve (lines 593-596)
ServeCallback == GameCallback("serve")

\* the callback scheduled when the countdown reaches 0 (lines 412-423)
TimeoutCallback == GameCallback("timeout")

\* ------------------------------------------------------------------------
\* Time
\* ------------------------------------------------------------------------

NoAutoPlayTimer == [ armed |-> FALSE, due |-> 0 ]

Elapse(queue) == [ j \in 1..Len(queue) |-> [ queue[j] EXCEPT !.due = @ - 1 ] ]

NothingDue ==
    /\ timerInterval.armed => timerInterval.due > 0
    /\ autoPlayTimer.armed => autoPlayTimer.due > 0
    /\ \A j \in 1..Len(gameTimeouts) : gameTimeouts[j].due > 0
    /\ \A j \in 1..Len(tutorTimeouts) : tutorTimeouts[j].due > 0

SomethingPending ==
    \/ timerInterval.armed
    \/ autoPlayTimer.armed
    \/ gameTimeouts # << >>
    \/ tutorTimeouts # << >>

\* 500 ms pass: a timer that is due runs before more time passes
TimePasses ==
    /\ NothingDue /\ SomethingPending
    /\ timerInterval' = IF timerInterval.armed
                        THEN [ timerInterval EXCEPT !.due = @ - 1 ]
                        ELSE timerInterval
    /\ autoPlayTimer' = IF autoPlayTimer.armed
                        THEN [ autoPlayTimer EXCEPT !.due = @ - 1 ]
                        ELSE autoPlayTimer
    /\ gameTimeouts' = Elapse(gameTimeouts)
    /\ tutorTimeouts' = Elapse(tutorTimeouts)
    /\ lastOp' = NoOp
    /\ UNCHANGED << solverVars, phase, exampleIndex, practiceIndex, currentStep,
                    isAutoPlaying, examples, practiceQuestions, userInputs, isCorrect,
                    correctAnswerCount, caDay1Earnings, caDay2Earnings,
                    showEarningsCalculation, pg, orders, instance, servesMade >>

\* ------------------------------------------------------------------------
\* Questions (ColumnAddition.tsx lines 60-112, 179-215)
\* ------------------------------------------------------------------------

\* generateQuestion (lines 60-86) for the drawn numbers topNum and bottomNum
generateQuestion(topNum, bottomNum) ==
    [ topNumber |-> NumberToString(topNum), bottomNumber |-> NumberToString(bottomNum) ]

\* Math.random() returns r / RandomGrain for a numerator r below RandomGrain
RandomGrain == 10

\* the numerators tried
RandomValues == { 0, 4, 7, 9 }

\* Math.floor(Math.random() * m)
FloorOfRandom(r, m) == (r * m) \div RandomGrain

\* LeadingBottomDigit drawn from one value too many
LeadingBottomDigit_TooWide(r, top) == FloorOfRandom(r, 10 - top) + 1

\* bottomDigits[0] (line 101)
LeadingBottomDigit(r, top) == FloorOfRandom(r, 9 - top) + 1

\* topDigits of generateNoCarryQuestion (lines 96-98) for three random values
NoCarryTopDigits(r) ==
    << FloorOfRandom(r[1], 4) + 1, FloorOfRandom(r[2], 5), FloorOfRandom(r[3], 5) >>

\* bottomDigits of generateNoCarryQuestion (lines 101-103)
NoCarryBottomDigits(r, topDigits) ==
    << LeadingBottomDigit(r[1], topDigits[1]),
       FloorOfRandom(r[2], 10 - topDigits[2]),
       FloorOfRandom(r[3], 10 - topDigits[3]) >>

\* generateNoCarryQuestion (lines 89-112) for the drawn digits
generateNoCarryQuestion(topDigits, bottomDigits) ==
    [ topNumber    |-> [ k \in 1..3 |-> DigitToString(topDigits[k]) ],
      bottomNumber |-> [ k \in 1..3 |-> DigitToString(bottomDigits[k]) ] ]

\* the draws of the random source that are tried, inside the ranges of each tier
EasyDraws   == { << 123, 45 >>, << 999, 99 >> }
MediumDraws == { << 1234, 567 >> }
HardDraws   == { << 12345, 6789 >> }
NoCarryDraws == { << << 1, 2, 3 >>, << 4, 5, 6 >> >> }

\* the draws tried for the medium and hard practice questions
MediumPracticeDraws == { << 1000, 100 >> }
HardPracticeDraws   == { << 10000, 1000 >> }

\* the solved examples (lines 180-190) and the practice questions (lines 193-205)
\* of a fixed draw, used where the tutor is not the subject
SomeExamples ==
    << solveQuestion(generateNoCarryQuestion(<< 1, 2, 3 >>, << 4, 5, 6 >>)),
       solveQuestion(generateQuestion(1234, 567)),
       solveQuestion(generateQuestion(12345, 6789)) >>

SomePractice ==
    << generateQuestion(123, 45), generateQuestion(999, 99),
       generateQuestion(1234, 567), generateQuestion(1234, 567),
       generateQuestion(12345, 6789), generateQuestion(12345, 6789) >>

\* userInputs for a question (lines 207-214, 363-367)
InputsFor(q) ==
    LET maxLength == Max(Len(q.topNumber), Len(q.bottomNumber))
    IN  [ answer |-> FillEmpty(maxLength + 1), carries |-> FillEmpty(maxLength + 1) ]

\* ------------------------------------------------------------------------
\* The reward game on its own: the tutor has just entered phase pizza-game
\* ------------------------------------------------------------------------

SolverIdle ==
    /\ question = generateQuestion(0, 0)
    /\ solved = solveQuestion(generateQuestion(0, 0))
    /\ solverDone = TRUE

\* the tutor after two correct answers, when the delayed callbacks have run
TutorAtFirstGame ==
    /\ phase = "pizza-game"
    /\ exampleIndex = 2
    /\ practiceIndex = 2
    /\ currentStep = Len(SomeExamples[3].steps) - 1
    /\ isAutoPlaying = FALSE
    /\ examples = SomeExamples
    /\ practiceQuestions = SomePractice
    /\ userInputs = InputsFor(SomePractice[3])
    /\ isCorrect = Null
    /\ correctAnswerCount = 2
    /\ caDay1Earnings = 0
    /\ caDay2Earnings = 0
    /\ showEarningsCalculation = FALSE
    /\ autoPlayTimer = NoAutoPlayTimer
    /\ tutorTimeouts = << >>

GameInit ==
    /\ SolverIdle
    /\ TutorAtFirstGame
    /\ pg = InitialGame
    /\ \E rotation \in OrderRotations : orders = GenerateOrders(rotation)
    /\ instance = 1
    /\ timerInterval = NoInterval
    /\ gameTimeouts = << >>
    /\ servesMade = 0
    /\ lastOp = NoOp

\* the tutor comes back to phase pizza-game (ColumnAddition.tsx line 342) and
\* a new PizzaGame instance is mounted (lines 443-445) with fresh state
EnterPizzaGame ==
    /\ phase = "earnings-calculation"
    /\ instance < MaxSessions
    /\ phase' = "pizza-game"
    /\ pg' = InitialGame
    /\ \E rotation \in OrderRotations : orders' = GenerateOrders(rotation)
    /\ instance' = instance + 1
    /\ timerInterval' = NoInterval
    /\ lastOp' = NoOp
    /\ UNCHANGED << solverVars, exampleIndex, practiceIndex, currentStep,
                    isAutoPlaying, examples, practiceQuestions, userInputs, isCorrect,
                    correctAnswerCount, caDay1Earnings, caDay2Earnings,
                    showEarningsCalculation, autoPlayTimer, tutorTimeouts,
                    gameTimeouts, servesMade >>

GameNext ==
    \/ startGame
    \/ \E ingredientId \in ToggleChoices : toggleIngredient(ingredientId)
    \/ completePizza
    \/ resetPizza
    \/ servePizza
    \/ TimerTick
    \/ ServeCallback
    \/ TimeoutCallback
    \/ TimePasses

GameSpec == GameInit /\ [][GameNext]_vars

\* the reward game over several sessions of one page load
SessionsNext ==
    \/ GameNext
    \/ EnterPizzaGame

SessionsSpec == GameInit /\ [][SessionsNext]_vars

\* ------------------------------------------------------------------------
\* solveQuestion on its own
\* ------------------------------------------------------------------------

\* bound on the length of an operand
MaxOperandLen == 3

\* the digit characters operands are built from
OperandDigits == {"0", "1", "5", "9"}

DigitStrings == UNION { [ 1..n -> OperandDigits ] : n \in 1..MaxOperandLen }

\* the worked scenarios 45 + 7 and 999 + 1
ScenarioQuestions ==
    { [ topNumber |-> << "4", "5" >>, bottomNumber |-> << "7" >> ],
      [ topNumber |-> << "9", "9", "9" >>, bottomNumber |-> << "1" >> ] }

SolverQuestions ==
    { [ topNumber |-> t, bottomNumber |-> b ] : t \in DigitStrings, b \in DigitStrings }
        \cup ScenarioQuestions

NotSolved ==
    [ topNumber |-> << >>, bottomNumber |-> << >>,
      correctAnswer |-> << >>, correctCarries |-> << >>, steps |-> << >> ]

\* the tutor at page load, for a fixed draw of the questions
TutorFixed ==
    /\ phase = "examples"
    /\ exampleIndex = 0
    /\ practiceIndex = 0
    /\ currentStep = -1
    /\ isAutoPlaying = FALSE
    /\ examples = SomeExamples
    /\ practiceQuestions = SomePractice
    /\ userInputs = InputsFor(SomePractice[1])
    /\ isCorrect = Null
    /\ correctAnswerCount = 0
    /\ caDay1Earnings = 0
    /\ caDay2Earnings = 0
    /\ showEarningsCalculation = FALSE
    /\ autoPlayTimer = NoAutoPlayTimer
    /\ tutorTimeouts = << >>

\* no PizzaGame instance has been mounted
GameUnmounted ==
    /\ pg = InitialGame
    /\ orders = GenerateOrders(0)
    /\ instance = 0
    /\ timerInterval = NoInterval
    /\ gameTimeouts = << >>
    /\ servesMade = 0

SolverInit ==
    /\ question \in SolverQuestions
    /\ solved = NotSolved
    /\ solverDone = FALSE
    /\ TutorFixed
    /\ GameUnmounted
    /\ lastOp = NoOp

\* one call of solveQuestion (lines 115-176)
Solve ==
    /\ ~solverDone
    /\ solved' = solveQuestion(question)
    /\ solverDone' = TRUE
    /\ UNCHANGED << question, tutorVars, gameVars, lastOp >>

SolverNext == Solve

SolverSpec == SolverInit /\ [][SolverNext]_vars

\* ------------------------------------------------------------------------
\* Properties of solveQuestion
\* ------------------------------------------------------------------------

RECURSIVE Pow10(_)
Pow10(k) == IF k = 0 THEN 1 ELSE 10 * Pow10(k - 1)

\* the number a cell shows; an empty cell contributes nothing
CellValue(c) ==
    IF c = "" \/ c = " " \/ c = Undefined THEN 0
    ELSE CHOOSE d \in 0..9 : DigitChars[d + 1] = c

RECURSIVE PrefixValue(_, _)
\* cells 0..k-1 read from left to right as a decimal number
PrefixValue(cells, k) ==
    IF k = 0 THEN 0 ELSE PrefixValue(cells, k - 1) * 10 + CellValue(At(cells, k - 1))

\* the integer an operand string denotes
OperandValue(s) == PrefixValue(s, Len(s))

\* the answer array read as a right-aligned number: the final-carry cell n
\* first, then cells 0..n-1
AnswerValue(answer, n) == CellValue(At(answer, n)) * Pow10(n) + PrefixValue(answer, n)

QuestionLength(q) == Max(Len(q.topNumber), Len(q.bottomNumber))

\* column i (0 = leftmost of the n columns) of top + bottom has a column sum of
\* 10 or more: the digits from column i to the right add up to 10^(n-i) or more
ColumnCarries(q, i) ==
    LET width == Pow10(QuestionLength(q) - i)
    IN  (OperandValue(q.topNumber) % width) + (OperandValue(q.bottomNumber) % width)
            >= width

\* C1: the answer array of solveQuestion, read as a right-aligned number with
\* the final-carry cell n as the most significant digit followed by cells
\* 0..n-1, equals top + bottom.
C1_AnswerIsSum ==
    solverDone =>
        AnswerValue(solved.correctAnswer, QuestionLength(question))
            = OperandValue(question.topNumber) + OperandValue(question.bottomNumber)

\* a question of unequal operand lengths whose sum has one digit more was solved
C1_Witness ==
    /\ solverDone
    /\ Len(question.topNumber) > Len(question.bottomNumber)
    /\ At(solved.correctAnswer, QuestionLength(question)) = "1"

\* C9: a column i > 0 whose sum is 10 or more has its carry in carries[i-1];
\* the carry of column 0 is in answer[n] and in no carries cell; every other
\* carries cell is empty.
C9_CarryPlacement ==
    solverDone =>
        LET n == QuestionLength(question)
        IN  /\ \A i \in 1..(n - 1) :
                  ColumnCarries(question, i) => At(solved.correctCarries, i - 1) = "1"
            /\ \A j \in 0..(Len(solved.correctCarries) - 1) :
                  At(solved.correctCarries, j) # ""
                      => (j + 1 <= n - 1 /\ ColumnCarries(question, j + 1))
            /\ At(solved.correctAnswer, n)
                  = (IF ColumnCarries(question, 0) THEN "1" ELSE "")

\* a question was solved in which column 0 and a column to its right carry while
\* the column in between does not
C9_Witness ==
    /\ solverDone
    /\ QuestionLength(question) = 3
    /\ ColumnCarries(question, 0)
    /\ ~ColumnCarries(question, 1)
    /\ ColumnCarries(question, 2)

\* C10: the answer array and the carries array both have max(len(top),
\* len(bottom)) + 1 cells.
C10_ArrayLengths ==
    solverDone =>
        /\ Len(solved.correctAnswer) = QuestionLength(question) + 1
        /\ Len(solved.correctCarries) = QuestionLength(question) + 1

\* a question with a shorter top operand and no final carry was solved
C10_Witness ==
    /\ solverDone
    /\ Len(question.topNumber) < Len(question.bottomNumber)
    /\ ~ColumnCarries(question, 0)

\* ------------------------------------------------------------------------
\* Properties of the reward game
\* ------------------------------------------------------------------------

EarningsOrSalesChange ==
    \/ pg'.day1Earnings # pg.day1Earnings
    \/ pg'.day2Earnings # pg.day2Earnings
    \/ pg'.pizzasSoldDay1 # pg.pizzasSoldDay1
    \/ pg'.pizzasSoldDay2 # pg.pizzasSoldDay2

\* C3: a day ends exactly when its attempt counter reaches 5: day 2 is entered
\* with 5 attempts on day 1, the game completes with 5 attempts on day 2, and
\* no day ever has a sixth attempt.
C3_DayEndsAtFiveAttempts ==
    /\ pg.day1Attempts <= AttemptsPerDay
    /\ pg.day2Attempts <= AttemptsPerDay
    /\ pg.currentDay = 2 => pg.day1Attempts = AttemptsPerDay
    /\ phase = "earnings-calculation" => pg.day2Attempts = AttemptsPerDay

\* C4: earnings and sales change only in a step taken with the selection equal,
\* as a set, to the current order's ingredients; a serve with any other
\* selection leaves them as they were.
C4_ExactMatchOnly ==
    [][ /\ EarningsOrSalesChange =>
              (HasOrder(pg) /\ pg.selectedIngredients = currentOrder(pg).ingredients)
        /\ lastOp' = "servePizza:wrong" => ~EarningsOrSalesChange ]_vars

\* the order {sauce, cheese} was served with {sauce, cheese, olive} selected
C4_Witness ==
    /\ lastOp = "servePizza:wrong"
    /\ currentOrder(pg).ingredients = {"sauce", "cheese"}
    /\ pg.selectedIngredients = {"sauce", "cheese", "olive"}

ServeStep ==
    \/ lastOp' \in { "servePizza:ignored", "servePizza:wrong" }
    \/ servesMade' # servesMade

\* C23: servePizza invoked while the timer is not armed changes no state:
\* earnings, sale and attempt counters, order index, day and selection are
\* unchanged, and nothing is scheduled.
C23_ServeIgnoredWhenDisarmed ==
    [][ (ServeStep /\ ~pg.isTimerActive) =>
            /\ pg' = pg
            /\ timerInterval' = timerInterval
            /\ gameTimeouts' = gameTimeouts
            /\ servesMade' = servesMade
            /\ UNCHANGED tutorVars ]_vars

\* Serve was pressed on a matching pizza after the order had timed out
C23_Witness ==
    /\ lastOp = "servePizza:ignored"
    /\ ~pg.isTimerActive
    /\ pg.timeLeft = 0
    /\ HasOrder(pg)
    /\ orderMatches(currentOrder(pg), pg.selectedIngredients)

\* the started game waits for nothing: no countdown, no callback, not complete
GameStuck ==
    /\ Mounted /\ pg.gameStarted
    /\ ~pg.isTimerActive
    /\ ~timerInterval.armed
    /\ gameTimeouts = << >>

\* C26: once started, the game never reaches a state where the timer is
\* disarmed, no callback is pending and the game is not complete, so that
\* with the countdown and the callbacks running it ends by calling onComplete.
C26_GameNeverStuck == ~GameStuck

\* the callback of a resolved attempt (serve or timeout) runs in the mounted
\* game and ends neither the day nor the game
ResolvedStep ==
    /\ Mounted
    /\ Len(gameTimeouts') < Len(gameTimeouts)
    /\ phase' = "pizza-game"
    /\ pg'.currentDay = pg.currentDay

\* C27: after every resolved attempt that does not end the day, the current
\* order index has advanced by exactly one, the selection is cleared and the
\* timer is re-armed with the full 20 seconds.
C27_NextOrderAfterAttempt ==
    [][ ResolvedStep =>
            /\ pg'.currentOrderIndex = pg.currentOrderIndex + 1
            /\ pg'.selectedIngredients = {}
            /\ pg'.timeLeft = OrderSeconds
            /\ pg'.isTimerActive
            /\ timerInterval'.armed ]_vars

\* the order on show has been resolved by a serve or a timeout whose
\* callback has not run yet
OrderResolved ==
    /\ Mounted
    /\ \E k \in 1..Len(gameTimeouts) :
           /\ gameTimeouts[k].snap.instance = instance
           /\ gameTimeouts[k].snap.currentDay = pg.currentDay
           /\ gameTimeouts[k].snap.currentOrderIndex = pg.currentOrderIndex

\* C28: from the moment an order is resolved until the next order or day is
\* presented the countdown stays disarmed: the timer is not re-armed for the
\* resolved order and no tick is pending.
C28_DisarmedWhileResolved ==
    OrderResolved => ~pg.isTimerActive /\ ~timerInterval.armed

\* C33: the order presented on day 1 has index 0..4 and the order presented on
\* day 2 has index 5..9, so no order is presented on both days.
C33_OrdersOfTheDay ==
    (Mounted /\ pg.gameStarted) =>
        /\ pg.currentDay = 1 => pg.currentOrderIndex \in 0..(Day2FirstOrder - 1)
        /\ pg.currentDay = 2 => pg.currentOrderIndex \in Day2FirstOrder..(OrderCount - 1)

\* a successful serve of the order on show is waiting for its nextOrder
ServedAlready ==
    \E k \in 1..Len(gameTimeouts) :
        /\ gameTimeouts[k].kind = "serve"
        /\ gameTimeouts[k].snap.instance = instance
        /\ gameTimeouts[k].snap.currentDay = pg.currentDay
        /\ gameTimeouts[k].snap.currentOrderIndex = pg.currentOrderIndex

\* C35: an order is credited at most once: after a successful serve no further
\* serve of the same order is accepted and credited before the next order is
\* presented.
C35_OrderCreditedOnce ==
    [][ (servesMade' # servesMade /\ EarningsOrSalesChange) => ~ServedAlready ]_vars

\* C6: the price multiplier of a session is {1,4,8}[number of sessions
\* completed before it mod 3].
C6_MultiplierCycles ==
    Mounted => pg.priceMultiplier = multipliers[((instance - 1) % 3) + 1]

\* C7: the pair handed to onComplete is the pair of accumulated per-day
\* earnings totals of the game.
C7_ReportedEarningsAreTotals ==
    phase = "earnings-calculation" =>
        /\ caDay1Earnings = pg.day1Earnings
        /\ caDay2Earnings = pg.day2Earnings

\* C8: a successful serve with t seconds left on an order of base price p under
\* multiplier m adds p*m + floor(t/2)*m to the current day's earnings and one
\* to that day's attempts, and leaves the other day's earnings and attempts.
C8_ServeEarnings ==
    [][ servesMade' = servesMade + 1 =>
            LET p == currentOrder(pg).totalPrice
                m == pg.priceMultiplier
                t == pg.timeLeft
                earned == p * m + (t \div 2) * m
            IN  IF pg.currentDay = 1
                THEN /\ pg'.day1Earnings = pg.day1Earnings + earned
                     /\ pg'.day1Attempts = pg.day1Attempts + 1
                     /\ pg'.day2Earnings = pg.day2Earnings
                     /\ pg'.day2Attempts = pg.day2Attempts
                ELSE /\ pg'.day2Earnings = pg.day2Earnings + earned
                     /\ pg'.day2Attempts = pg.day2Attempts + 1
                     /\ pg'.day1Earnings = pg.day1Earnings
                     /\ pg'.day1Attempts = pg.day1Attempts ]_vars

\* an order was served on day 2 with an odd number of seconds left, after an
\* order served on day 1
C8_Witness ==
    /\ servesMade = 2
    /\ pg.day1Earnings > 0
    /\ pg.day2Earnings = currentOrder(pg).totalPrice + 9
    /\ pg.day2Attempts = 1

\* ------------------------------------------------------------------------
\* The tutor (ColumnAddition.tsx): examples, practice, earnings calculation
\* ------------------------------------------------------------------------

\* bound on the number of answers checked as correct
MaxCorrect == 3

\* a digit that is not the leading digit of any sum tried
WrongDigit == "7"

\* the pairs handed to onComplete that are tried; the reward game itself is
\* the subject of GameSpec
ReportedPairs == { << 0, 0 >>, << 18, 0 >> }

\* Array.prototype.every((val, i) => val === correct[i]) on the user's array
EveryEquals(user, correct) ==
    \A i \in 0..(Len(user) - 1) : At(user, i) = At(correct, i)

EarningsLength == Max(Len(NumberToString(caDay1Earnings)), Len(NumberToString(caDay2Earnings)))

\* correctAnswer of checkEarningsAnswer (lines 386-397)
EarningsCorrectAnswer ==
    LET totalStr == NumberToString(caDay1Earnings + caDay2Earnings)
        maxLength == EarningsLength + 1
        paddedTotal == PadStart(totalStr, maxLength)
    IN  [ k \in 1..maxLength |-> IF paddedTotal[k] # " " THEN paddedTotal[k] ELSE "" ]

HasQuestion == practiceIndex >= 0 /\ practiceIndex < Len(practiceQuestions)

\* currentQuestion outside the examples phase (line 440)
currentQuestion == practiceQuestions[practiceIndex + 1]

QuestionMaxLength(q) == Max(Len(q.topNumber), Len(q.bottomNumber))

\* AutoPlayEffect without the cleanup of the timer when auto-play is turned off
AutoPlayEffect_NoCleanup(pending) ==
    autoPlayTimer' =
        IF /\ isAutoPlaying'
           /\ \/ examples' # examples
              \/ exampleIndex' # exampleIndex
              \/ currentStep' # currentStep
              \/ isAutoPlaying' # isAutoPlaying
        THEN [ armed |-> TRUE, due |-> AutoPlayDelay ]
        ELSE pending

\* the effect of the auto-play timer (lines 256-261): when autoPlay or
\* isAutoPlaying changed, the pending timer is cleared and, if isAutoPlaying,
\* a new one is set; pending is the timer left by the step itself
AutoPlayEffect(pending) ==
    autoPlayTimer' =
        IF \/ examples' # examples
           \/ exampleIndex' # exampleIndex
           \/ currentStep' # currentStep
           \/ isAutoPlaying' # isAutoPlaying
        THEN IF isAutoPlaying'
             THEN [ armed |-> TRUE, due |-> AutoPlayDelay ]
             ELSE NoAutoPlayTimer
        ELSE pending

LastStep == Len(examples[exampleIndex + 1].steps) - 1

\* CanStep without the test of the last step
CanStep_Always == TRUE

\* currentStep < currentExample.steps.length - 1 (lines 239, 248)
CanStep == currentStep < LastStep

\* startAutoPlay (lines 263-268), behind the Play Example button (lines 670-680)
startAutoPlay ==
    /\ phase = "examples"
    /\ currentStep < LastStep
    /\ ~isAutoPlaying
    /\ currentStep' = IF currentStep = -1 THEN 0 ELSE currentStep
    /\ isAutoPlaying' = TRUE
    /\ UNCHANGED << phase, exampleIndex, practiceIndex, examples, practiceQuestions,
                    userInputs, isCorrect, correctAnswerCount, caDay1Earnings,
                    caDay2Earnings, showEarningsCalculation, tutorTimeouts >>
    /\ AutoPlayEffect(autoPlayTimer)
    /\ lastOp' = NoOp
    /\ UNCHANGED << solverVars, gameVars >>

\* autoPlay without the setIsAutoPlaying(false) of the last step
autoPlay_KeepsPlaying ==
    /\ autoPlayTimer.armed /\ autoPlayTimer.due = 0
    /\ currentStep' = IF CanStep THEN currentStep + 1 ELSE currentStep
    /\ UNCHANGED isAutoPlaying
    /\ UNCHANGED << phase, exampleIndex, practiceIndex, examples, practiceQuestions,
                    userInputs, isCorrect, correctAnswerCount, caDay1Earnings,
                    caDay2Earnings, showEarningsCalculation, tutorTimeouts >>
    /\ AutoPlayEffect(NoAutoPlayTimer)
    /\ lastOp' = NoOp
    /\ UNCHANGED << solverVars, gameVars >>

\* autoPlay (lines 244-253), run by the auto-play timer
autoPlay ==
    /\ autoPlayTimer.armed /\ autoPlayTimer.due = 0
    /\ IF CanStep
       THEN /\ currentStep' = currentStep + 1
            /\ UNCHANGED isAutoPlaying
       ELSE /\ isAutoPlaying' = FALSE
            /\ UNCHANGED currentStep
    /\ UNCHANGED << phase, exampleIndex, practiceIndex, examples, practiceQuestions,
                    userInputs, isCorrect, correctAnswerCount, caDay1Earnings,
                    caDay2Earnings, showEarningsCalculation, tutorTimeouts >>
    /\ AutoPlayEffect(NoAutoPlayTimer)
    /\ lastOp' = NoOp
    /\ UNCHANGED << solverVars, gameVars >>

\* what the example handlers leave alone; the effect of the auto-play timer
\* runs after each of them
ExampleFrame ==
    /\ UNCHANGED << phase, practiceIndex, examples, practiceQuestions,
                    userInputs, isCorrect, correctAnswerCount, caDay1Earnings,
                    caDay2Earnings, showEarningsCalculation, tutorTimeouts >>
    /\ AutoPlayEffect(autoPlayTimer)
    /\ UNCHANGED << solverVars, gameVars >>

\* nextExample (lines 217-223)
nextExampleHandler ==
    /\ IF exampleIndex < Len(examples) - 1
       THEN /\ exampleIndex' = exampleIndex + 1
            /\ currentStep' = -1
            /\ isAutoPlaying' = FALSE
       ELSE UNCHANGED << exampleIndex, currentStep, isAutoPlaying >>
    /\ ExampleFrame

\* nextExample behind the Next Example button (lines 682-686), which is shown
\* at the last step of an example that is not the last
nextExample ==
    /\ phase = "examples"
    /\ currentStep >= LastStep
    /\ exampleIndex < Len(examples) - 1
    /\ nextExampleHandler
    /\ lastOp' = NoOp

\* resetSteps (lines 232-235)
resetSteps ==
    /\ currentStep' = -1
    /\ isAutoPlaying' = FALSE
    /\ UNCHANGED exampleIndex
    /\ ExampleFrame

\* nextStep (lines 237-242)
nextStep ==
    /\ currentStep' = IF CanStep THEN currentStep + 1 ELSE currentStep
    /\ UNCHANGED << exampleIndex, isAutoPlaying >>
    /\ ExampleFrame

\* pauseAutoPlay (lines 270-272)
pauseAutoPlay ==
    /\ isAutoPlaying' = FALSE
    /\ UNCHANGED << exampleIndex, currentStep >>
    /\ ExampleFrame

\* completeExample (lines 274-280)
completeExample ==
    /\ currentStep' = LastStep
    /\ isAutoPlaying' = FALSE
    /\ UNCHANGED exampleIndex
    /\ ExampleFrame

\* the handlers of the example view called one at a time, each from the
\* render that follows the previous call; lastOp names the handler
CallExampleHandler ==
    /\ phase = "examples"
    /\ \/ nextExampleHandler /\ lastOp' = "nextExample"
       \/ resetSteps /\ lastOp' = "resetSteps"
       \/ nextStep /\ lastOp' = "nextStep"
       \/ pauseAutoPlay /\ lastOp' = "pauseAutoPlay"
       \/ completeExample /\ lastOp' = "completeExample"

\* startPractice (lines 225-229), behind the Start Practice button (lines 687-691)
startPractice ==
    /\ phase = "examples"
    /\ currentStep >= LastStep
    /\ exampleIndex >= Len(examples) - 1
    /\ phase' = "practice"
    /\ practiceIndex' = 0
    /\ isCorrect' = Null
    /\ lastOp' = NoOp
    /\ UNCHANGED << exampleIndex, currentStep, isAutoPlaying, examples,
                    practiceQuestions, userInputs, correctAnswerCount, caDay1Earnings,
                    caDay2Earnings, showEarningsCalculation, autoPlayTimer,
                    tutorTimeouts >>
    /\ UNCHANGED << solverVars, gameVars >>

\* the cells of the practice grid (lines 727-739, 817-861) with the entries tried
\* in them: the solved value of the cell, and a wrong digit in the first cell
PracticeEdits ==
    LET s == solveQuestion(currentQuestion)
        maxLength == QuestionMaxLength(currentQuestion)
    IN  { << "answer", i, At(s.correctAnswer, i) >> : i \in 0..maxLength }
          \cup { << "carries", i, At(s.correctCarries, i) >> : i \in 0..(maxLength - 1) }
          \cup { << "answer", 0, WrongDigit >> }

\* the cells of the earnings grid (lines 525-536, 565-576) with the entries tried
EarningsEdits ==
    { << "answer", i, At(EarningsCorrectAnswer, i) >> : i \in 0..EarningsLength }
      \cup { << "answer", 0, WrongDigit >>, << "carries", 0, "1" >> }

\* IsCellValue accepting every value
IsCellValue_Any(value) == TRUE

\* value === '' || /^\d$/.test(value) (line 294)
IsCellValue(value) == value = "" \/ \E d \in 0..9 : DigitChars[d + 1] = value

\* PadTo starting from a fresh array of empty cells
PadTo_Fresh(arr, requiredLength) == FillEmpty(Max(Len(arr), requiredLength))

\* the while loop of handleInputChange (lines 306-309)
PadTo(arr, requiredLength) ==
    [ k \in 1..Max(Len(arr), requiredLength) |-> IF k <= Len(arr) THEN arr[k] ELSE "" ]

\* handleInputChange (lines 293-321)
handleInputChange(type, index, value) ==
    /\ IF IsCellValue(value)
       THEN /\ LET requiredLength ==
                       IF phase = "earnings-calculation"
                       THEN EarningsLength + 1
                       ELSE IF type = "answer"
                            THEN QuestionMaxLength(currentQuestion) + 1
                            ELSE QuestionMaxLength(currentQuestion)
                   currentArray == PadTo(userInputs[type], requiredLength)
               IN  userInputs' =
                       [ userInputs EXCEPT ![type] = SetAt(currentArray, index, value) ]
            /\ isCorrect' = Null
       ELSE UNCHANGED << userInputs, isCorrect >>
    /\ UNCHANGED << phase, exampleIndex, practiceIndex, currentStep, isAutoPlaying,
                    examples, practiceQuestions, correctAnswerCount, caDay1Earnings,
                    caDay2Earnings, showEarningsCalculation, autoPlayTimer,
                    tutorTimeouts >>
    /\ UNCHANGED << solverVars, gameVars >>

\* an entry typed into a cell of the practice grid
TypePractice ==
    /\ phase = "practice" /\ HasQuestion
    /\ \E e \in PracticeEdits : handleInputChange(e[1], e[2], e[3])
    /\ lastOp' = NoOp

\* an entry typed into a cell of the earnings grid
TypeEarnings ==
    /\ phase = "earnings-calculation" /\ showEarningsCalculation
    /\ \E e \in EarningsEdits : handleInputChange(e[1], e[2], e[3])
    /\ lastOp' = NoOp

\* values that are neither empty nor one decimal digit
InvalidValues == { "x", " ", "12", "-" }

\* further entries tried: the invalid values, a cell emptied
OtherEdits ==
    { << "answer", 0, v >> : v \in InvalidValues }
      \cup { << "carries", 1, "x" >>, << "answer", 0, "" >>, << "answer", 1, "" >> }

\* one of the further entries arrives at handleInputChange; lastOp records that
\* the value was an invalid one
TypeOther ==
    /\ \/ phase = "practice" /\ HasQuestion
       \/ phase = "earnings-calculation" /\ showEarningsCalculation
    /\ \E e \in OtherEdits :
           /\ handleInputChange(e[1], e[2], e[3])
           /\ lastOp' = IF e[3] \in InvalidValues THEN "typed:invalid" ELSE NoOp

\* the verdict of checkAnswer (lines 327-333)
AnswerVerdict(q, inputs) ==
    LET s == solveQuestion(q)
        answerCorrect == EveryEquals(inputs.answer, s.correctAnswer)
        carriesCorrect == EveryEquals(inputs.carries, s.correctCarries)
    IN  answerCorrect /\ carriesCorrect

\* TriggersPizzaGame starting the game after every correct answer
TriggersPizzaGame_Always(newCount) == newCount > 0

\* newCount % 2 === 0 && newCount > 0 (line 341)
TriggersPizzaGame(newCount) == newCount % 2 = 0 /\ newCount > 0

\* the delayed callbacks of checkAnswer keep the practiceIndex they were made with
TutorSnapshot == [ practiceIndex |-> practiceIndex ]

\* CallbacksOfCheck advancing only when the game is not started
CallbacksOfCheck_Exclusive(queue, newCount, snap) ==
    IF TriggersPizzaGame(newCount)
    THEN Schedule(queue, "pizza-game", AdvanceDelay, snap)
    ELSE Schedule(queue, "advance", AdvanceDelay, snap)

\* the setTimeout calls of a correct checkAnswer (lines 337-353): the advance
\* to the next question always, the change of phase when the count is even
CallbacksOfCheck(queue, newCount, snap) ==
    LET advance == Schedule(queue, "advance", AdvanceDelay, snap)
    IN  IF TriggersPizzaGame(newCount)
        THEN Schedule(advance, "pizza-game", AdvanceDelay, snap)
        ELSE advance

\* checkAnswer scheduling the advance after a wrong answer as well
checkAnswer_AdvanceOnWrong ==
    /\ phase = "practice" /\ HasQuestion
    /\ IF AnswerVerdict(currentQuestion, userInputs)
       THEN /\ isCorrect' = "true"
            /\ correctAnswerCount' = correctAnswerCount + 1
            /\ tutorTimeouts' =
                   CallbacksOfCheck(tutorTimeouts, correctAnswerCount + 1, TutorSnapshot)
       ELSE /\ isCorrect' = "false"
            /\ tutorTimeouts' =
                   Schedule(tutorTimeouts, "advance", AdvanceDelay, TutorSnapshot)
            /\ UNCHANGED correctAnswerCount
    /\ lastOp' = NoOp
    /\ UNCHANGED << phase, exampleIndex, practiceIndex, currentStep, isAutoPlaying,
                    examples, practiceQuestions, userInputs, caDay1Earnings,
                    caDay2Earnings, showEarningsCalculation, autoPlayTimer >>
    /\ UNCHANGED << solverVars, gameVars >>

\* checkAnswer (lines 323-354), behind the Check Answer button (lines 696-699)
checkAnswer ==
    /\ phase = "practice" /\ HasQuestion
    /\ IF AnswerVerdict(currentQuestion, userInputs)
       THEN /\ isCorrect' = "true"
            /\ correctAnswerCount' = correctAnswerCount + 1
            /\ tutorTimeouts' =
                   CallbacksOfCheck(tutorTimeouts, correctAnswerCount + 1, TutorSnapshot)
       ELSE /\ isCorrect' = "false"
            /\ UNCHANGED << correctAnswerCount, tutorTimeouts >>
    /\ lastOp' = NoOp
    /\ UNCHANGED << phase, exampleIndex, practiceIndex, currentStep, isAutoPlaying,
                    examples, practiceQuestions, userInputs, caDay1Earnings,
                    caDay2Earnings, showEarningsCalculation, autoPlayTimer >>
    /\ UNCHANGED << solverVars, gameVars >>

\* Check Answer pressed while fewer than `bound` correct answers were counted
\* (an incorrect answer can always be checked)
CheckWithin(bound) ==
    /\ phase = "practice" /\ HasQuestion
    /\ AnswerVerdict(currentQuestion, userInputs) => correctAnswerCount < bound
    /\ checkAnswer

\* setTimeout callbacks of equal delay run in the order they were scheduled
FirstDue(queue, k) ==
    /\ k \in 1..Len(queue)
    /\ queue[k].due = 0
    /\ \A j \in 1..(k - 1) : queue[j].due > 0

\* the callback of lines 348-352 and nextPractice (lines 356-371) as it closes
\* over the practiceIndex of the render that scheduled it
AdvanceCallback ==
    \E k \in 1..Len(tutorTimeouts) :
        /\ FirstDue(tutorTimeouts, k)
        /\ tutorTimeouts[k].kind = "advance"
        /\ tutorTimeouts' = RemoveAt(tutorTimeouts, k)
        /\ LET stale == tutorTimeouts[k].snap.practiceIndex
           IN  IF stale < Len(practiceQuestions) - 1
               THEN /\ practiceIndex' = practiceIndex + 1
                    /\ userInputs' = InputsFor(practiceQuestions[stale + 2])
                    /\ isCorrect' = Null
               ELSE UNCHANGED << practiceIndex, userInputs, isCorrect >>
        /\ lastOp' = NoOp
        /\ UNCHANGED << phase, exampleIndex, currentStep, isAutoPlaying, examples,
                        practiceQuestions, correctAnswerCount, caDay1Earnings,
                        caDay2Earnings, showEarningsCalculation, autoPlayTimer >>
        /\ UNCHANGED << solverVars, gameVars >>

\* a new PizzaGame instance is mounted with fresh state (lines 443-445)
MountGame ==
    /\ pg' = InitialGame
    /\ \E rotation \in OrderRotations : orders' = GenerateOrders(rotation)
    /\ instance' = instance + 1
    /\ timerInterval' = NoInterval

\* the callback of line 342: setPhase('pizza-game')
PizzaGameCallback ==
    \E k \in 1..Len(tutorTimeouts) :
        /\ FirstDue(tutorTimeouts, k)
        /\ tutorTimeouts[k].kind = "pizza-game"
        /\ tutorTimeouts' = RemoveAt(tutorTimeouts, k)
        /\ phase' = "pizza-game"
        /\ IF phase # "pizza-game"
           THEN MountGame
           ELSE UNCHANGED << pg, orders, instance, timerInterval >>
        /\ lastOp' = NoOp
        /\ UNCHANGED << exampleIndex, practiceIndex, currentStep, isAutoPlaying,
                        examples, practiceQuestions, userInputs, isCorrect,
                        correctAnswerCount, caDay1Earnings, caDay2Earnings,
                        showEarningsCalculation, autoPlayTimer >>
        /\ UNCHANGED << solverVars, gameTimeouts, servesMade >>

\* the mounted game calls onComplete (PizzaGame.tsx lines 478, 492);
\* the callbacks of the tutor, due after 1.5 s, have run long before
GameCompletes ==
    /\ phase = "pizza-game"
    /\ tutorTimeouts = << >>
    /\ \E pair \in ReportedPairs : handlePizzaGameComplete(pair[1], pair[2])
    /\ lastOp' = NoOp
    /\ UNCHANGED << solverVars, gameVars >>

\* checkEarningsAnswer (lines 385-402), behind the Check button (lines 583-585)
checkEarningsAnswer ==
    /\ phase = "earnings-calculation" /\ showEarningsCalculation
    /\ isCorrect' = IF EveryEquals(userInputs.answer, EarningsCorrectAnswer)
                    THEN "true" ELSE "false"
    /\ lastOp' = NoOp
    /\ UNCHANGED << phase, exampleIndex, practiceIndex, currentStep, isAutoPlaying,
                    examples, practiceQuestions, userInputs, correctAnswerCount,
                    caDay1Earnings, caDay2Earnings, showEarningsCalculation,
                    autoPlayTimer, tutorTimeouts >>
    /\ UNCHANGED << solverVars, gameVars >>

\* continuePractice (lines 422-435), behind the Continue button, which is
\* disabled unless isCorrect === true (lines 606-610)
continuePractice ==
    /\ phase = "earnings-calculation" /\ showEarningsCalculation
    /\ isCorrect = "true"
    /\ userInputs' = [ answer |-> << >>, carries |-> << >> ]
    /\ isCorrect' = Null
    /\ phase' = IF practiceIndex >= Len(practiceQuestions) - 1
                THEN "complete" ELSE "practice"
    /\ showEarningsCalculation' = FALSE
    /\ lastOp' = NoOp
    /\ UNCHANGED << exampleIndex, practiceIndex, currentStep, isAutoPlaying,
                    examples, practiceQuestions, correctAnswerCount, caDay1Earnings,
                    caDay2Earnings, autoPlayTimer, tutorTimeouts >>
    /\ UNCHANGED << solverVars, gameVars >>

\* the tutor at page load, after the effect of lines 179-215 has drawn the
\* examples and the practice questions
TutorInit ==
    /\ SolverIdle
    /\ phase = "examples"
    /\ exampleIndex = 0
    /\ practiceIndex = 0
    /\ currentStep = -1
    /\ isAutoPlaying = FALSE
    /\ \E d1 \in NoCarryDraws, d2 \in MediumDraws, d3 \in HardDraws :
           examples = << solveQuestion(generateNoCarryQuestion(d1[1], d1[2])),
                         solveQuestion(generateQuestion(d2[1], d2[2])),
                         solveQuestion(generateQuestion(d3[1], d3[2])) >>
    /\ \E e1 \in EasyDraws, e2 \in EasyDraws,
          m1 \in MediumPracticeDraws, m2 \in MediumPracticeDraws,
          h1 \in HardPracticeDraws, h2 \in HardPracticeDraws :
           practiceQuestions =
               << generateQuestion(e1[1], e1[2]), generateQuestion(e2[1], e2[2]),
                  generateQuestion(m1[1], m1[2]), generateQuestion(m2[1], m2[2]),
                  generateQuestion(h1[1], h1[2]), generateQuestion(h2[1], h2[2]) >>
    /\ userInputs = InputsFor(practiceQuestions[1])
    /\ isCorrect = Null
    /\ correctAnswerCount = 0
    /\ caDay1Earnings = 0
    /\ caDay2Earnings = 0
    /\ showEarningsCalculation = FALSE
    /\ autoPlayTimer = NoAutoPlayTimer
    /\ tutorTimeouts = << >>
    /\ GameUnmounted
    /\ lastOp = NoOp

TutorNext ==
    \/ startAutoPlay
    \/ autoPlay
    \/ nextExample
    \/ startPractice
    \/ TypePractice
    \/ CheckWithin(MaxCorrect)
    \/ AdvanceCallback
    \/ PizzaGameCallback
    \/ GameCompletes
    \/ TypeEarnings
    \/ checkEarningsAnswer
    \/ continuePractice
    \/ TimePasses

TutorSpec == TutorInit /\ [][TutorNext]_vars

\* C2: whenever checkAnswer has given the verdict correct, the learner's entry
\* equals the solved value at every position of the solved answer array and of
\* the solved carries array, a cell never filled counting as empty.
C2_CorrectOnlyIfAllCellsMatch ==
    (phase = "practice" /\ HasQuestion /\ isCorrect = "true") =>
        LET s == solveQuestion(currentQuestion)
            Entry(arr, i) == IF At(arr, i) = Undefined THEN "" ELSE At(arr, i)
        IN  /\ \A i \in 0..(Len(s.correctAnswer) - 1) :
                   Entry(userInputs.answer, i) = At(s.correctAnswer, i)
            /\ \A i \in 0..(Len(s.correctCarries) - 1) :
                   Entry(userInputs.carries, i) = At(s.correctCarries, i)

\* ------------------------------------------------------------------------
\* Properties of solveQuestion: indexing and the final carry
\* ------------------------------------------------------------------------

QuestionSum(q) == OperandValue(q.topNumber) + OperandValue(q.bottomNumber)

\* the digit of v at place 10^k
DigitOf(v, k) == (v \div Pow10(k)) % 10

Question45Plus7 == [ topNumber |-> << "4", "5" >>, bottomNumber |-> << "7" >> ]

Question999Plus1 == [ topNumber |-> << "9", "9", "9" >>, bottomNumber |-> << "1" >> ]

\* C11 as claimed: index 0 of the answer array is the units column, index 1 the
\* tens column, and so on; 45 + 7 gives the answer cells 2, 5, empty and the
\* carries cells 1, empty.
C11_UnitsAtIndexZero ==
    solverDone =>
        /\ \A k \in 0..(QuestionLength(question) - 1) :
               CellValue(At(solved.correctAnswer, k)) = DigitOf(QuestionSum(question), k)
        /\ question = Question45Plus7 =>
               /\ solved.correctAnswer = << "2", "5", "" >>
               /\ solved.correctCarries = << "1", "" >>

\* C11 as amended: index 0 of the answer array is the leftmost of the n columns
\* and index n-1 the units column, so cell i holds the digit of top + bottom at
\* place 10^(n-1-i); 45 + 7 gives the answer cells 5, 2, empty and the carries
\* cells 1, empty, empty.
C11_LeftmostAtIndexZero ==
    solverDone =>
        LET n == QuestionLength(question)
        IN  /\ \A i \in 0..(n - 1) :
                   At(solved.correctAnswer, i)
                       = DigitToString(DigitOf(QuestionSum(question), n - 1 - i))
            /\ question = Question45Plus7 =>
                   /\ solved.correctAnswer = << "5", "2", "" >>
                   /\ solved.correctCarries = << "1", "", "" >>

\* 45 + 7 was solved and its units digit 2 is in cell 1
C11_Witness ==
    /\ solverDone
    /\ question = Question45Plus7
    /\ At(solved.correctAnswer, 1) = "2"
    /\ At(solved.correctAnswer, 0) = "5"

\* C12: when the leftmost column carries, answer cell n holds the carry and one
\* step with columnIndex -1 follows the n column steps; otherwise cell n is
\* empty and no step has columnIndex -1.  999 + 1 gives the cells 0, 0, 0, 1.
C12_FinalCarryCellAndStep ==
    solverDone =>
        LET n == QuestionLength(question)
            steps == solved.steps
        IN  /\ \A j \in 1..n : j <= Len(steps) /\ steps[j].columnIndex = n - j
            /\ IF ColumnCarries(question, 0)
               THEN /\ At(solved.correctAnswer, n) = "1"
                    /\ Len(steps) = n + 1
                    /\ steps[n + 1].columnIndex = -1
                    /\ steps[n + 1].result = "1"
               ELSE /\ At(solved.correctAnswer, n) = ""
                    /\ Len(steps) = n
            /\ question = Question999Plus1 =>
                   solved.correctAnswer = << "0", "0", "0", "1" >>

\* 999 + 1 was solved: four steps, the last one the final carry
C12_Witness ==
    /\ solverDone
    /\ question = Question999Plus1
    /\ Len(solved.steps) = 4
    /\ solved.steps[4].columnIndex = -1

\* ------------------------------------------------------------------------
\* Properties of the tutor's phases
\* ------------------------------------------------------------------------

\* timers run when they are due and time passes
TutorFairness ==
    /\ WF_vars(TimePasses)
    /\ WF_vars(AdvanceCallback)
    /\ WF_vars(PizzaGameCallback)
    /\ WF_vars(autoPlay)

\* the tutor for one draw of the practice questions, with its timers running
TutorFairInit ==
    /\ TutorInit
    /\ practiceQuestions[1] = generateQuestion(123, 45)
    /\ practiceQuestions[2] = generateQuestion(123, 45)

TutorFairSpec == TutorFairInit /\ [][TutorNext]_vars /\ TutorFairness

\* the callbacks of one kind that wait in a queue
Pending(queue, kind) == { k \in 1..Len(queue) : queue[k].kind = kind }

\* a step of checkAnswer that gave the verdict correct
CorrectCheckStep == correctAnswerCount' = correctAnswerCount + 1

\* a step of checkAnswer that changed the verdict to incorrect
IncorrectCheckStep == phase = "practice" /\ isCorrect # "false" /\ isCorrect' = "false"

\* C13: the phase becomes pizza-game only from practice and only by the delayed
\* callback of a correct checkAnswer that made the counter positive and even;
\* every such check is followed by the phase pizza-game; a correct check that
\* leaves the counter odd and an incorrect check schedule no such callback.
C13_GameStartsOnEvenCorrectCount ==
    /\ [][ /\ (phase' = "pizza-game" /\ phase # "pizza-game") =>
                 /\ phase = "practice"
                 /\ Cardinality(Pending(tutorTimeouts', "pizza-game"))
                        = Cardinality(Pending(tutorTimeouts, "pizza-game")) - 1
           /\ (Cardinality(Pending(tutorTimeouts', "pizza-game"))
                   > Cardinality(Pending(tutorTimeouts, "pizza-game"))) =>
                 /\ CorrectCheckStep
                 /\ isCorrect' = "true"
                 /\ correctAnswerCount' % 2 = 0
           /\ (CorrectCheckStep /\ correctAnswerCount' % 2 = 1) =>
                 Pending(tutorTimeouts', "pizza-game") = Pending(tutorTimeouts, "pizza-game")
           /\ IncorrectCheckStep =>
                 /\ tutorTimeouts' = tutorTimeouts
                 /\ phase' = "practice" ]_vars
    /\ (Pending(tutorTimeouts, "pizza-game") # {} /\ phase = "practice")
           ~> (phase = "pizza-game")

\* the game was started by the second correct answer
C13_Witness ==
    /\ phase = "pizza-game"
    /\ correctAnswerCount = 2
    /\ tutorTimeouts = << >>

\* a step in which a delayed callback of checkAnswer ran
CallbackStep == Len(tutorTimeouts') = Len(tutorTimeouts) - 1

\* the callback that runs in a CallbackStep
RunningCallback == tutorTimeouts[CHOOSE k \in 1..Len(tutorTimeouts) : FirstDue(tutorTimeouts, k)]

IsLastQuestion(index) == index >= Len(practiceQuestions) - 1

\* C14 as claimed: when the delay after a correct check has elapsed, either the
\* counter is even, the phase is pizza-game and the practice index is the one
\* of the check, or the counter is odd, the phase is practice and the index has
\* advanced by one with the entry arrays reset for the new question.
C14_EitherGameOrAdvance ==
    [][ (CallbackStep /\ tutorTimeouts' = << >> /\ phase = "practice") =>
            IF correctAnswerCount % 2 = 0
            THEN /\ phase' = "pizza-game"
                 /\ practiceIndex' = RunningCallback.snap.practiceIndex
            ELSE /\ phase' = "practice"
                 /\ practiceIndex' = RunningCallback.snap.practiceIndex + 1
                 /\ userInputs' = InputsFor(practiceQuestions[practiceIndex' + 1]) ]_vars

\* C14 as amended: every correct check schedules the advance, and the change to
\* pizza-game as well when the incremented counter is even.  When the delay
\* has elapsed the advance adds one to the practice index and resets the entry
\* arrays for the question after the one checked, unless the question checked
\* was the last; the phase is left as it is.  The change of phase leaves the
\* practice index and the entry arrays as they are.
C14_AdvanceAlwaysGameWhenEven ==
    [][ /\ CorrectCheckStep =>
              LET advance == [ kind |-> "advance", due |-> AdvanceDelay,
                               snap |-> [ practiceIndex |-> practiceIndex ] ]
                  game    == [ advance EXCEPT !.kind = "pizza-game" ]
              IN  tutorTimeouts' =
                      IF correctAnswerCount' % 2 = 0
                      THEN tutorTimeouts \o << advance, game >>
                      ELSE tutorTimeouts \o << advance >>
        /\ (CallbackStep /\ RunningCallback.kind = "advance") =>
              /\ phase' = phase
              /\ IF IsLastQuestion(RunningCallback.snap.practiceIndex)
                 THEN practiceIndex' = practiceIndex /\ userInputs' = userInputs
                 ELSE /\ practiceIndex' = practiceIndex + 1
                      /\ userInputs' = InputsFor(
                             practiceQuestions[RunningCallback.snap.practiceIndex + 2])
                      /\ isCorrect' = Null
        /\ (CallbackStep /\ RunningCallback.kind = "pizza-game") =>
              /\ phase' = "pizza-game"
              /\ practiceIndex' = practiceIndex
              /\ userInputs' = userInputs ]_vars

\* after the second correct answer both callbacks have run: the game has
\* started and the third question is up with its entry arrays reset
C14_Witness ==
    /\ phase = "pizza-game"
    /\ tutorTimeouts = << >>
    /\ correctAnswerCount = 2
    /\ practiceIndex = 2
    /\ userInputs = InputsFor(practiceQuestions[3])

\* ------------------------------------------------------------------------
\* Properties of handleInputChange
\* ------------------------------------------------------------------------

\* the tutor with the further entries typed as well
InputNext ==
    \/ TutorNext
    \/ TypeOther

InputSpec == TutorFairInit /\ [][InputNext]_vars

\* C15: handleInputChange with a value that is neither empty nor one decimal
\* digit leaves both entry arrays and the verdict as they were.
C15_InvalidValueRejected ==
    [][ lastOp' = "typed:invalid" =>
            /\ userInputs' = userInputs
            /\ isCorrect' = isCorrect ]_vars

\* an invalid value was typed over a filled cell after an incorrect check
C15_Witness ==
    /\ lastOp = "typed:invalid"
    /\ phase = "practice"
    /\ isCorrect = "false"
    /\ At(userInputs.answer, 0) = WrongDigit

\* a step of handleInputChange that changed a cell
EntryStep ==
    /\ userInputs' # userInputs
    /\ phase' = phase
    /\ tutorTimeouts' = tutorTimeouts

\* C16: handleInputChange with an empty or one-digit value v sets the cell at
\* index of the named field to v, leaves every other cell already present in
\* that field and the whole other field as they were, appends only empty
\* cells when the array grows, and sets the verdict to null.
C16_EntryFrame ==
    [][ EntryStep =>
            \E type \in { "answer", "carries" } :
                LET other == IF type = "answer" THEN "carries" ELSE "answer"
                    old == userInputs[type]
                    new == userInputs'[type]
                IN  /\ userInputs'[other] = userInputs[other]
                    /\ Len(new) >= Len(old)
                    /\ isCorrect' = Null
                    /\ \E index \in 0..(Len(new) - 1) :
                           /\ IsCellValue(At(new, index))
                           /\ \A j \in 0..(Len(new) - 1) :
                                  j # index =>
                                      At(new, j) = (IF j < Len(old) THEN At(old, j) ELSE "") ]_vars

\* a digit was typed into the last answer cell of arrays that were empty,
\* after a filled cell of the earnings calculation had been emptied
C16_Witness ==
    /\ phase = "practice"
    /\ practiceIndex = 2
    /\ Len(userInputs.answer) = QuestionMaxLength(currentQuestion) + 1
    /\ userInputs.carries = << >>
    /\ At(userInputs.answer, 0) = ""
    /\ At(userInputs.answer, 3) # ""

\* ------------------------------------------------------------------------
\* The entry arrays when a practice question is presented
\* ------------------------------------------------------------------------

\* a step after which the practice phase shows a question it did not show
\* before: startPractice, an advance, the return from the earnings calculation
PresentStep ==
    /\ phase' = "practice"
    /\ practiceIndex' < Len(practiceQuestions)
    /\ \/ phase # "practice"
       \/ practiceIndex' # practiceIndex

\* C17: whenever the practice phase presents a question, both entry arrays are
\* all-empty and have max(len(top), len(bottom)) + 1 cells for that question.
C17_PresentedWithFreshArrays ==
    [][ PresentStep =>
            userInputs' = InputsFor(practiceQuestions[practiceIndex' + 1]) ]_vars

\* ------------------------------------------------------------------------
\* The earnings calculation against the solver
\* ------------------------------------------------------------------------

\* the practice question with top = day1Earnings and bottom = day2Earnings
EarningsQuestion == generateQuestion(caDay1Earnings, caDay2Earnings)

\* C18: the verdict of checkEarningsAnswer is correct exactly for the entries
\* for which the practice check on the question day1Earnings + day2Earnings
\* is correct: answer and carries cells equal to solveQuestion's arrays.
C18_EarningsGradedBySolver ==
    ( /\ phase = "earnings-calculation"
      /\ showEarningsCalculation
      /\ isCorrect # Null )
        => ( isCorrect = "true" <=> AnswerVerdict(EarningsQuestion, userInputs) )

\* ------------------------------------------------------------------------
\* The phases of the tutor
\* ------------------------------------------------------------------------

\* the phase changes of the lesson plan
LessonEdges ==
    { << "examples", "practice" >>,
      << "practice", "pizza-game" >>,
      << "pizza-game", "earnings-calculation" >>,
      << "earnings-calculation", "practice" >>,
      << "earnings-calculation", "complete" >>,
      << "pizza-game", "practice" >> }

\* the first game played to its end, followed by the earnings calculation:
\* the callbacks of the game that are still pending when it completes run
\* while the learner goes on.  A timer that is due runs before the learner's
\* next entry or click in the earnings calculation.
LessonNext ==
    \/ GameNext
    \/ NothingDue /\ TypeEarnings
    \/ NothingDue /\ checkEarningsAnswer
    \/ NothingDue /\ continuePractice

LessonSpec == GameInit /\ [][LessonNext]_vars

\* C19: every change of phase follows one of the edges examples -> practice,
\* practice -> pizza-game, pizza-game -> earnings-calculation,
\* earnings-calculation -> practice, earnings-calculation -> complete,
\* pizza-game -> practice; once the phase is complete it never changes.
C19_PhaseFollowsLessonEdges ==
    [][ phase' # phase => << phase, phase' >> \in LessonEdges ]_vars

\* ------------------------------------------------------------------------
\* The way to phase complete
\* ------------------------------------------------------------------------

\* bound on the correct answers counted on the way to phase complete
MaxPresses == 5

\* the tutor with enough correct answers for all six questions
CompletionNext ==
    \/ startAutoPlay
    \/ autoPlay
    \/ nextExample
    \/ startPractice
    \/ TypePractice
    \/ CheckWithin(MaxPresses)
    \/ AdvanceCallback
    \/ PizzaGameCallback
    \/ GameCompletes
    \/ TypeEarnings
    \/ checkEarningsAnswer
    \/ continuePractice
    \/ TimePasses

CompletionSpec == TutorFairInit /\ [][CompletionNext]_vars

\* a step of continuePractice
ContinueStep == phase = "earnings-calculation" /\ phase' # phase

\* C20: the phase becomes complete only at the end of the third earnings
\* calculation, when six correct answers have been counted; after the first
\* or the second earnings calculation continuePractice returns to practice.
C20_CompleteOnlyAfterThirdCalculation ==
    [][ ContinueStep =>
            IF instance >= 3 /\ correctAnswerCount >= Len(practiceQuestions)
            THEN phase' \in { "practice", "complete" }
            ELSE phase' = "practice" ]_vars

\* ------------------------------------------------------------------------
\* The example stepper
\* ------------------------------------------------------------------------

\* the tutor with the handlers of the example view called directly
StepperNext ==
    \/ TutorNext
    \/ CallExampleHandler

StepperSpec == TutorFairInit /\ [][StepperNext]_vars

\* a step of autoPlay run by its timer
TickStep ==
    /\ autoPlayTimer.armed /\ autoPlayTimer.due = 0
    /\ autoPlayTimer' # autoPlayTimer
    /\ exampleIndex' = exampleIndex
    /\ lastOp' = NoOp

\* currentStep after a step forward
SteppedForward ==
    currentStep' = IF currentStep < LastStep THEN currentStep + 1 ELSE currentStep

\* C21: currentStep lies in -1 .. len(steps)-1 of the current example in every
\* reachable state; nextStep and an auto-play tick increase it by one below
\* len(steps)-1 and leave it unchanged at len(steps)-1; completeExample sets
\* it to len(steps)-1.
C21_CursorInRange ==
    /\ [](currentStep \in -1..LastStep)
    /\ [][ lastOp' = "nextStep" => SteppedForward ]_vars
    /\ [][ TickStep => SteppedForward ]_vars
    /\ [][ lastOp' = "completeExample" => currentStep' = LastStep ]_vars

\* nextStep was called at the last step of the second example
C21_Witness ==
    /\ lastOp = "nextStep"
    /\ exampleIndex = 1
    /\ currentStep = LastStep

\* the example view set back to the start, auto-play and its timer off
CursorReset ==
    /\ currentStep' = -1
    /\ ~isAutoPlaying'
    /\ ~autoPlayTimer'.armed

\* C22: nextExample before the last example increases the example index by
\* one, sets the cursor to -1 and turns auto-play off, and no tick is left
\* pending that would move the new example's cursor; resetSteps sets the
\* cursor to -1 and turns auto-play off; nextExample at the last example
\* changes nothing.
C22_NextExampleResets ==
    /\ [][ exampleIndex' # exampleIndex =>
               exampleIndex' = exampleIndex + 1 /\ CursorReset ]_vars
    /\ [][ lastOp' = "nextExample" =>
               IF exampleIndex < Len(examples) - 1
               THEN exampleIndex' = exampleIndex + 1 /\ CursorReset
               ELSE UNCHANGED << exampleIndex, currentStep, isAutoPlaying,
                                 autoPlayTimer >> ]_vars
    /\ [][ lastOp' = "resetSteps" =>
               exampleIndex' = exampleIndex /\ CursorReset ]_vars
    /\ [][ TickStep => currentStep # -1 ]_vars

\* the examples were stepped through to the last one, where nextExample was
\* called while auto-play was on
C22_Witness ==
    /\ lastOp = "nextExample"
    /\ exampleIndex = Len(examples) - 1
    /\ isAutoPlaying
    /\ currentStep > 0

\* ------------------------------------------------------------------------
\* A wrong answer checked
\* ------------------------------------------------------------------------

\* a step in which the practice verdict becomes incorrect
VerdictIncorrectStep ==
    /\ phase = "practice"
    /\ isCorrect # "false"
    /\ isCorrect' = "false"

\* C24: a checkAnswer that finds the entries wrong sets the verdict to
\* incorrect and changes nothing else: entry arrays, counter of correct
\* answers, practice index and phase are unchanged and no delayed callback is
\* scheduled; the question stays there to be edited and checked again.
C24_WrongAnswerOnlySetsVerdict ==
    /\ [][ VerdictIncorrectStep =>
               /\ ~AnswerVerdict(currentQuestion, userInputs)
               /\ userInputs' = userInputs
               /\ correctAnswerCount' = correctAnswerCount
               /\ practiceIndex' = practiceIndex
               /\ phase' = phase
               /\ tutorTimeouts' = tutorTimeouts ]_vars
    /\ []( (phase = "practice" /\ isCorrect = "false") => HasQuestion )

\* the second question was checked with a wrong digit in its first cell
C24_Witness ==
    /\ phase = "practice"
    /\ isCorrect = "false"
    /\ practiceIndex = 1
    /\ correctAnswerCount = 1
    /\ At(userInputs.answer, 0) = WrongDigit
    /\ tutorTimeouts = << >>

\* ------------------------------------------------------------------------
\* The first teaching example
\* ------------------------------------------------------------------------

\* generateNoCarryQuestion for six values of Math.random()
NoCarryQuestionOf(rTop, rBottom) ==
    LET topDigits == NoCarryTopDigits(rTop)
    IN  generateNoCarryQuestion(topDigits, NoCarryBottomDigits(rBottom, topDigits))

\* the tutor at page load (lines 179-215) with the first example drawn by
\* generateNoCarryQuestion; question is that example before it is solved
NoCarryInit ==
    /\ \E rTop \in RandomValues \X RandomValues \X RandomValues,
          rBottom \in RandomValues \X RandomValues \X RandomValues :
           /\ question = NoCarryQuestionOf(rTop, rBottom)
           /\ examples = << solveQuestion(NoCarryQuestionOf(rTop, rBottom)),
                            SomeExamples[2], SomeExamples[3] >>
    /\ solved = NotSolved
    /\ solverDone = FALSE
    /\ phase = "examples"
    /\ exampleIndex = 0
    /\ practiceIndex = 0
    /\ currentStep = -1
    /\ isAutoPlaying = FALSE
    /\ practiceQuestions = SomePractice
    /\ userInputs = InputsFor(SomePractice[1])
    /\ isCorrect = Null
    /\ correctAnswerCount = 0
    /\ caDay1Earnings = 0
    /\ caDay2Earnings = 0
    /\ showEarningsCalculation = FALSE
    /\ autoPlayTimer = NoAutoPlayTimer
    /\ tutorTimeouts = << >>
    /\ GameUnmounted
    /\ lastOp = NoOp

NoCarryNext == Solve

NoCarrySpec == NoCarryInit /\ [][NoCarryNext]_vars

\* C25: a question of generateNoCarryQuestion has a 3-digit top operand with
\* leading digit 1..4 and a 3-digit bottom operand, each column's digit sum
\* being at most 9; solving it gives an all-empty carries array, an empty
\* final-carry cell and exactly 3 steps; it is the first teaching example.
C25_NoCarryExample ==
    /\ Len(question.topNumber) = 3
    /\ Len(question.bottomNumber) = 3
    /\ CellValue(question.topNumber[1]) \in 1..4
    /\ question.bottomNumber[1] # "0"
    /\ \A k \in 1..3 :
           /\ IsCellValue(question.topNumber[k]) /\ question.topNumber[k] # ""
           /\ IsCellValue(question.bottomNumber[k]) /\ question.bottomNumber[k] # ""
           /\ CellValue(question.topNumber[k]) + CellValue(question.bottomNumber[k]) <= 9
    /\ examples[1].topNumber = question.topNumber
    /\ examples[1].bottomNumber = question.bottomNumber
    /\ solverDone =>
           /\ examples[1] = solved
           /\ \A i \in 0..(Len(solved.correctCarries) - 1) :
                  At(solved.correctCarries, i) = ""
           /\ At(solved.correctAnswer, 3) = ""
           /\ Len(solved.steps) = 3

\* 444 + 555 was drawn and solved: every column adds up to 9
C25_Witness ==
    /\ solverDone
    /\ question.topNumber = << "4", "4", "4" >>
    /\ question.bottomNumber = << "5", "5", "5" >>
    /\ solved.correctAnswer = << "9", "9", "9", "" >>

\* ------------------------------------------------------------------------
\* Late callbacks of checkAnswer
\* ------------------------------------------------------------------------

\* the callback about to run was scheduled in a state that has been left
CallbackIsStale ==
    \/ phase # "practice"
    \/ RunningCallback.snap.practiceIndex # practiceIndex

\* C29: a delayed callback of a correct checkAnswer that fires after the phase
\* has left practice, or after the practice index has changed, leaves the
\* phase, the practice index and the entry arrays unchanged.
C29_StaleCallbackChangesNothing ==
    [][ (CallbackStep /\ CallbackIsStale) =>
            UNCHANGED << phase, practiceIndex, userInputs >> ]_vars

\* ------------------------------------------------------------------------
\* Auto-play outside the examples
\* ------------------------------------------------------------------------

\* C30: whenever the phase is not examples, isAutoPlaying is false and no
\* auto-play tick is pending; startPractice cancels an auto-play that is
\* still active.
C30_NoAutoPlayOutsideExamples ==
    phase # "examples" => ~isAutoPlaying /\ ~autoPlayTimer.armed

\* ------------------------------------------------------------------------
\* The end of auto-play
\* ------------------------------------------------------------------------

\* auto-play has stopped and has left no timer behind
AutoPlayOff == ~isAutoPlaying /\ ~autoPlayTimer.armed

\* C31: once auto-play is on, unless the example changes, the timer's ticks
\* bring currentStep to len(steps)-1 and then turn auto-play off, and no
\* timer of auto-play is armed while auto-play is off.
C31_AutoPlayRunsToTheEnd ==
    /\ \A e \in 0..2 :
           (isAutoPlaying /\ exampleIndex = e)
               ~> (AutoPlayOff /\ (currentStep = LastStep \/ exampleIndex # e))
    /\ [](~isAutoPlaying => ~autoPlayTimer.armed)

\* auto-play ran the first example to its last step and turned itself off
C31_Witness ==
    /\ phase = "examples"
    /\ exampleIndex = 0
    /\ currentStep = LastStep
    /\ AutoPlayOff

\* ------------------------------------------------------------------------
\* The cells of a worked example
\* ------------------------------------------------------------------------

\* a string or undefined used as a condition
Truthy(s) == s # Undefined /\ s # ""

\* steps.some((step, stepIndex) => stepIndex <= currentStep && test(step))
\* behind currentStep >= 0; seen is the set of steps that pass the test
SomeStepUpTo(ex, k, seen) ==
    k >= 0 /\ \E stepIndex \in 0..(Len(ex.steps) - 1) :
                  stepIndex <= k /\ stepIndex \in seen

\* shouldShowCarry looking for the step of the column itself
shouldShowCarry_SameColumn(ex, k, i) ==
    SomeStepUpTo(ex, k, { j \in 0..(Len(ex.steps) - 1) :
                            /\ At(ex.steps, j).columnIndex = i
                            /\ Truthy(At(ex.steps, j).carry) })

\* shouldShowCarry in the examples phase (lines 715-718)
shouldShowCarry(ex, k, i) ==
    SomeStepUpTo(ex, k, { j \in 0..(Len(ex.steps) - 1) :
                            /\ At(ex.steps, j).columnIndex = i + 1
                            /\ Truthy(At(ex.steps, j).carry) })

\* what the carry cell above column i shows (lines 722-729)
CarryCell(ex, k, i) ==
    IF shouldShowCarry(ex, k, i) /\ Truthy(At(ex.correctCarries, i))
    THEN At(ex.correctCarries, i)
    ELSE ""

\* shouldShowAnswer in the examples phase (lines 834-837)
shouldShowAnswer(ex, k, i) ==
    SomeStepUpTo(ex, k, { j \in 0..(Len(ex.steps) - 1) :
                            At(ex.steps, j).columnIndex = i })

\* what the answer cell of column i shows (lines 841-850)
AnswerCell(ex, k, i) ==
    IF shouldShowAnswer(ex, k, i) /\ Truthy(At(ex.correctAnswer, i))
    THEN At(ex.correctAnswer, i)
    ELSE ""

\* what the final-carry cell shows (lines 803-817)
FinalCarryCell(ex, k) ==
    LET maxLength == QuestionMaxLength(ex)
    IN  IF /\ SomeStepUpTo(ex, k, { j \in 0..(Len(ex.steps) - 1) :
                                      At(ex.steps, j).columnIndex = -1 })
           /\ Truthy(At(ex.correctAnswer, maxLength))
        THEN At(ex.correctAnswer, maxLength)
        ELSE ""

\* the carry row and the answer row of an example at cursor k; the final-carry
\* cell is the last cell of the answer row, as in correctAnswer
ShownCarries(ex, k) == [ c \in 1..QuestionMaxLength(ex) |-> CarryCell(ex, k, c - 1) ]

ShownAnswer(ex, k) ==
    [ c \in 1..(QuestionMaxLength(ex) + 1) |->
        IF c = QuestionMaxLength(ex) + 1 THEN FinalCarryCell(ex, k)
        ELSE AnswerCell(ex, k, c - 1) ]

\* the cells written by one step on the sheet: its result digit in its column
\* (the final-carry cell for columnIndex -1) and its carry above the column to
\* the left
WriteStep(sheet, step, maxLength) ==
    [ answer  |-> SetAt(sheet.answer,
                        IF step.columnIndex = -1 THEN maxLength ELSE step.columnIndex,
                        step.result),
      carries |-> IF step.carry # Undefined /\ step.columnIndex > 0
                  THEN SetAt(sheet.carries, step.columnIndex - 1, step.carry)
                  ELSE sheet.carries ]

RECURSIVE WriteSteps(_, _)
\* the sheet after steps 0..k of an example, starting from empty cells
WriteSteps(ex, k) ==
    IF k < 0
    THEN [ answer  |-> FillEmpty(QuestionMaxLength(ex) + 1),
           carries |-> FillEmpty(QuestionMaxLength(ex)) ]
    ELSE WriteStep(WriteSteps(ex, k - 1), At(ex.steps, k), QuestionMaxLength(ex))

\* C32: at every cursor position k of a solved example the cells shown are
\* exactly those written by steps 0..k (result digit in the step's column,
\* carry above the column to its left, final carry for the columnIndex -1
\* step); at k = -1 every cell is empty and at k = len(steps)-1 the cells
\* shown are the solved answer and carries.
C32_ShownCellsFollowCursor ==
    solverDone =>
        /\ \A k \in -1..(Len(solved.steps) - 1) :
               /\ ShownAnswer(solved, k) = WriteSteps(solved, k).answer
               /\ ShownCarries(solved, k) = WriteSteps(solved, k).carries
        /\ ShownAnswer(solved, -1) = FillEmpty(QuestionMaxLength(solved) + 1)
        /\ ShownCarries(solved, -1) = FillEmpty(QuestionMaxLength(solved))
        /\ ShownAnswer(solved, Len(solved.steps) - 1) = solved.correctAnswer
        /\ \A i \in 0..(QuestionMaxLength(solved) - 1) :
               At(ShownCarries(solved, Len(solved.steps) - 1), i)
                   = At(solved.correctCarries, i)

\* 999 + 1 solved: carries above two columns and a final carry, all shown at
\* the last cursor position and none at the first
C32_Witness ==
    /\ solverDone
    /\ question.topNumber = << "9", "9", "9" >>
    /\ question.bottomNumber = << "1" >>
    /\ ShownAnswer(solved, 3) = << "0", "0", "0", "1" >>
    /\ ShownCarries(solved, 3) = << "1", "1", "" >>
    /\ ShownAnswer(solved, 0) = << "", "", "0", "" >>
    /\ ShownCarries(solved, 0) = << "", "1", "" >>

\* ------------------------------------------------------------------------
\* The generation of the orders
\* ------------------------------------------------------------------------

\* the ids of INGREDIENTS in the order of the array (lines 22-31)
IngredientList ==
    << "sauce", "cheese", "pepperoni", "mushroom", "pepper", "olive", "sausage", "onion" >>

\* outcomes of [...INGREDIENTS].sort(() => 0.5 - Math.random()) that are tried:
\* the sort returns some permutation of the array
Shuffles ==
    << IngredientList,
       << "onion", "sausage", "olive", "pepper", "mushroom", "pepperoni", "cheese", "sauce" >>,
       << "mushroom", "onion", "cheese", "sausage", "sauce", "olive", "pepperoni", "pepper" >> >>

\* the numerators of Math.random() in the order they are tried
RandomList == << 0, 4, 7, 9 >>

\* NumIngredients drawing from five sizes instead of four
NumIngredients_UpToSix(u) == FloorOfRandom(u, 5) + 2

\* numIngredients (line 379)
NumIngredients(u) == FloorOfRandom(u, 4) + 2

RECURSIVE SumPriceList(_)
\* selectedIngredients.reduce((sum, ing) => sum + ing.price, 0) (line 386)
SumPriceList(ings) ==
    IF ings = << >> THEN 0
    ELSE INGREDIENTS[Head(ings)] + SumPriceList(Tail(ings))

\* one element of orders (lines 379-387) for the random number u and the
\* outcome shuffled of the sort; ingredients is the list of ids of line 385
GenerateOrder(i, u, shuffled) ==
    LET selectedIngredients == SubSeq(shuffled, 1, NumIngredients(u))
    IN  [ id          |-> i + 1,
          ingredients |-> selectedIngredients,
          totalPrice  |-> SumPriceList(selectedIngredients) + BasePizzaPrice ]

\* the useState initialiser of orders (lines 377-389), the draws of the k-th
\* order taken from RandomList and Shuffles starting at u0 and s0
GenerateOrderList(u0, s0) ==
    [ k \in 1..OrderCount |->
        GenerateOrder(k - 1,
                      RandomList[((k - 1 + u0) % Len(RandomList)) + 1],
                      Shuffles[((k - 1 + s0) % Len(Shuffles)) + 1]) ]

\* a mounted game with freshly generated orders
OrdersInit ==
    /\ SolverIdle
    /\ TutorAtFirstGame
    /\ pg = InitialGame
    /\ \E u0 \in 0..(Len(RandomList) - 1), s0 \in 0..(Len(Shuffles) - 1) :
           orders = GenerateOrderList(u0, s0)
    /\ instance = 1
    /\ timerInterval = NoInterval
    /\ gameTimeouts = << >>
    /\ servesMade = 0
    /\ lastOp = NoOp

\* the game played by a learner who lets every order run out of time
OrdersNext ==
    \/ startGame
    \/ TimerTick
    \/ TimeoutCallback
    \/ TimePasses

OrdersSpec == OrdersInit /\ [][OrdersNext]_vars

\* the toppings of an order as a set
Toppings(order) == { order.ingredients[j] : j \in 1..Len(order.ingredients) }

\* an order asks for 2 to 5 distinct toppings of the catalog and costs the sum
\* of their catalog prices plus the base price
WellFormedOrder(order) ==
    /\ Len(order.ingredients) \in 2..5
    /\ Cardinality(Toppings(order)) = Len(order.ingredients)
    /\ Toppings(order) \subseteq IngredientIds
    /\ Cardinality(IngredientIds) = 8
    /\ order.totalPrice = SumPrices(Toppings(order)) + 5

\* C34: there are 10 orders, each with 2 to 5 distinct toppings of the 8-item
\* catalog and a price equal to the sum of their catalog prices plus 5, and
\* the orders never change while the game runs.
C34_OrdersWellFormed ==
    /\ [](Len(orders) = 10 /\ \A k \in 1..Len(orders) : WellFormedOrder(orders[k]))
    /\ [][orders' = orders]_vars

\* the game has reached its third order and the list holds an order of two
\* toppings and an order of five
C34_Witness ==
    /\ pg.gameStarted
    /\ pg.currentOrderIndex = 2
    /\ \E k \in 1..Len(orders) : Len(orders[k].ingredients) = 2
    /\ \E k \in 1..Len(orders) : Len(orders[k].ingredients) = 5

\* ------------------------------------------------------------------------
\* Repeated presses of Check Answer
\* ------------------------------------------------------------------------

\* bound on the correct answers counted in a practice run
MaxChecks == 6

\* the tutor of TutorFairInit when the three examples have been played to the
\* end and Start Practice has been pressed
PracticeInit ==
    /\ SolverIdle
    /\ phase = "practice"
    /\ exampleIndex = 2
    /\ practiceIndex = 0
    /\ \E d1 \in NoCarryDraws, d2 \in MediumDraws, d3 \in HardDraws :
           examples = << solveQuestion(generateNoCarryQuestion(d1[1], d1[2])),
                         solveQuestion(generateQuestion(d2[1], d2[2])),
                         solveQuestion(generateQuestion(d3[1], d3[2])) >>
    /\ currentStep = LastStep
    /\ isAutoPlaying = FALSE
    /\ \E m1 \in MediumPracticeDraws, m2 \in MediumPracticeDraws,
          h1 \in HardPracticeDraws, h2 \in HardPracticeDraws :
           practiceQuestions =
               << generateQuestion(123, 45), generateQuestion(123, 45),
                  generateQuestion(m1[1], m1[2]), generateQuestion(m2[1], m2[2]),
                  generateQuestion(h1[1], h1[2]), generateQuestion(h2[1], h2[2]) >>
    /\ userInputs = InputsFor(practiceQuestions[1])
    /\ isCorrect = Null
    /\ correctAnswerCount = 0
    /\ caDay1Earnings = 0
    /\ caDay2Earnings = 0
    /\ showEarningsCalculation = FALSE
    /\ autoPlayTimer = NoAutoPlayTimer
    /\ tutorTimeouts = << >>
    /\ GameUnmounted
    /\ lastOp = NoOp

\* the practice phase with its reward games and earnings calculations
PracticeNext ==
    \/ TypePractice
    \/ CheckWithin(MaxChecks)
    \/ AdvanceCallback
    \/ PizzaGameCallback
    \/ GameCompletes
    \/ TypeEarnings
    \/ checkEarningsAnswer
    \/ continuePractice
    \/ TimePasses

PracticeSpec == PracticeInit /\ [][PracticeNext]_vars

\* C36: in every reachable state the practice index lies in
\* 0 .. len(practiceQuestions)-1, so that a current practice question exists,
\* also when Check Answer is pressed several times before the advance fires.
C36_PracticeIndexInRange ==
    practiceIndex \in 0..(Len(practiceQuestions) - 1)

\* C37: the correct-answer counter counts a practice question at most once:
\* a check of an answer that already has the verdict correct does not
\* increment it, so the counter never exceeds the number of questions
\* presented so far.
C37_QuestionCountedOnce ==
    /\ [][ correctAnswerCount' # correctAnswerCount => isCorrect # "true" ]_vars
    /\ [](correctAnswerCount <= practiceIndex + 1)

\* ------------------------------------------------------------------------
\* The copies of the solver
\* ------------------------------------------------------------------------

\* the loop state of the copies: the two arrays and the running carry
CopyStart(maxLength) ==
    [ answer  |-> FillEmpty(maxLength + 1),
      carries |-> FillEmpty(maxLength + 1),
      carry   |-> 0 ]

\* one column of the copies (part_000 lines 43-53, part_004 lines 74-84) for
\* the characters read from the two operands
CopyColumn(topChar, bottomChar, i, acc) ==
    LET topDigit    == OrZero(ParseInt(OrZeroChar(topChar)))
        bottomDigit == OrZero(ParseInt(OrZeroChar(bottomChar)))
        sum         == topDigit + bottomDigit + acc.carry
    IN  [ answer  |-> SetAt(acc.answer, i, DigitToString(sum % 10)),
          carries |-> IF sum \div 10 > 0 /\ i > 0
                      THEN SetAt(acc.carries, i - 1, DigitToString(sum \div 10))
                      ELSE acc.carries,
          carry   |-> sum \div 10 ]

\* the final carry of the copies (part_000 lines 56-59, part_004 lines 87-90)
CopyFinalCarry(acc, maxLength) ==
    [ correctAnswer  |-> IF acc.carry > 0
                         THEN SetAt(acc.answer, maxLength, DigitToString(acc.carry))
                         ELSE acc.answer,
      correctCarries |-> acc.carries ]

\* AdditionChar reading the operand from its first character
AdditionChar_LeftAligned(str, maxLength, i) == At(str, i)

\* topStr[topStr.length - maxLength + i] (part_000 lines 44-45)
AdditionChar(str, maxLength, i) == At(str, Len(str) - maxLength + i)

RECURSIVE AdditionLoop(_, _, _, _, _)
\* the for loop of solveAddition (part_000 lines 43-54)
AdditionLoop(topStr, bottomStr, maxLength, i, acc) ==
    IF i < 0 THEN acc
    ELSE AdditionLoop(topStr, bottomStr, maxLength, i - 1,
                      CopyColumn(AdditionChar(topStr, maxLength, i),
                                 AdditionChar(bottomStr, maxLength, i), i, acc))

\* solveAddition of ColumnAdditionTool (part_000 lines 32-66)
solveAddition(top, bottom) ==
    LET topStr    == NumberToString(top)
        bottomStr == NumberToString(bottom)
        maxLength == Max(Len(topStr), Len(bottomStr))
    IN  CopyFinalCarry(AdditionLoop(topStr, bottomStr, maxLength, maxLength - 1,
                                    CopyStart(maxLength)),
                       maxLength)

RECURSIVE ExercisesLoop(_, _, _, _)
\* the for loop of solveQuestion in ColumnAdditionExercises (part_004 lines 74-85)
ExercisesLoop(paddedTop, paddedBottom, i, acc) ==
    IF i < 0 THEN acc
    ELSE ExercisesLoop(paddedTop, paddedBottom, i - 1,
                       CopyColumn(At(paddedTop, i), At(paddedBottom, i), i, acc))

\* solveQuestion of ColumnAdditionExercises (part_004 lines 63-98)
ExercisesSolveQuestion(q) ==
    LET maxLength    == Max(Len(q.topNumber), Len(q.bottomNumber))
        paddedTop    == PadStart(q.topNumber, maxLength)
        paddedBottom == PadStart(q.bottomNumber, maxLength)
    IN  CopyFinalCarry(ExercisesLoop(paddedTop, paddedBottom, maxLength - 1,
                                     CopyStart(maxLength)),
                       maxLength)

\* the non-negative integers of at most 6 digits that are tried as operands
CopyOperands ==
    { 0, 1, 5, 9, 10, 45, 99, 100, 999, 1234, 5005, 99999, 100000, 909090, 999999 }

\* solveQuestion of ColumnAddition is about to be called on the decimal
\* strings of a pair of operands
CopiesInit ==
    /\ \E top \in CopyOperands, bottom \in CopyOperands :
           question = generateQuestion(top, bottom)
    /\ solved = NotSolved
    /\ solverDone = FALSE
    /\ TutorFixed
    /\ GameUnmounted
    /\ lastOp = NoOp

CopiesNext == Solve

CopiesSpec == CopiesInit /\ [][CopiesNext]_vars

\* C38: for every pair of non-negative integers of at most 6 digits,
\* solveAddition of ColumnAdditionTool and solveQuestion of
\* ColumnAdditionExercises return the answer array and the carries array that
\* solveQuestion of ColumnAddition returns for the operands' decimal strings.
C38_SolverCopiesAgree ==
    solverDone =>
        \A top \in CopyOperands, bottom \in CopyOperands :
            question = generateQuestion(top, bottom) =>
                /\ solveAddition(top, bottom).correctAnswer = solved.correctAnswer
                /\ solveAddition(top, bottom).correctCarries = solved.correctCarries
                /\ ExercisesSolveQuestion(question).correctAnswer = solved.correctAnswer
                /\ ExercisesSolveQuestion(question).correctCarries = solved.correctCarries

\* 999999 + 45 solved: operands of different lengths, carries and a final carry
C38_Witness ==
    /\ solverDone
    /\ question = generateQuestion(999999, 45)
    /\ solved.correctAnswer = << "0", "0", "0", "0", "4", "4", "1" >>
    /\ solveAddition(999999, 45).correctCarries = << "1", "1", "1", "1", "1", "", "" >>

\* ------------------------------------------------------------------------
\* The size of a carry
\* ------------------------------------------------------------------------

\* the characters '0' .. '9'
DigitCharSet == { DigitChars[d] : d \in 1..Len(DigitChars) }

\* C39: for operands made of digits every carry of solveQuestion is 0 or 1:
\* a carries cell and the final-carry cell are empty or hold "1", the carry of
\* a step is absent or "1", and each answer cell of index 0..n-1 holds one
\* digit.
C39_CarryIsZeroOrOne ==
    solverDone =>
        LET n == QuestionMaxLength(question)
        IN  /\ \A i \in 0..(Len(solved.correctCarries) - 1) :
                   At(solved.correctCarries, i) \in { "", "1" }
            /\ At(solved.correctAnswer, n) \in { "", "1" }
            /\ \A j \in 0..(Len(solved.steps) - 1) :
                   At(solved.steps, j).carry \in { Undefined, "1" }
            /\ \A i \in 0..(n - 1) : At(solved.correctAnswer, i) \in DigitCharSet

\* 999 + 999 solved: a column sum of 19, carries above two columns and a
\* final carry
C39_Witness ==
    /\ solverDone
    /\ question.topNumber = << "9", "9", "9" >>
    /\ question.bottomNumber = << "9", "9", "9" >>
    /\ solved.correctAnswer = << "9", "9", "8", "1" >>
    /\ solved.correctCarries = << "1", "1", "", "" >>

====
